---- MODULE Spec2Model ----
(***************************************************************************)
(* Model of csv-search: the CSV ingestion pipeline (internal/ingest), the  *)
(* SQLite store it writes (internal/database) and the vector search that   *)
(* reads it (internal/search).                                             *)
(*                                                                         *)
(* Strings are sequences of one-character strings, so that trimming,       *)
(* joining with separators and the fingerprint's input string are computed *)
(* character by character as the Go code computes them.                    *)
(***************************************************************************)
EXTENDS Integers, Sequences, FiniteSets, TLC

(***************************************************************************)
(* Bounds of the model.                                                    *)
(***************************************************************************)
MaxRows == 2
MaxRequests == 2
MaxRuns == 2
MaxVecLen == 2
MaxBlobLen == 5

(***************************************************************************)
(* Strings.                                                                *)
(***************************************************************************)
\* byte value of the characters the model uses (ordering of sort.Strings)
CharCode(c) ==
  CASE c = "\n" -> 10
    [] c = " " -> 32
    [] c = "*" -> 42
    [] c = "0" -> 48
    [] c = "1" -> 49
    [] c = "=" -> 61
    [] c = "A" -> 65
    [] c = "T" -> 84
    [] c = "a" -> 97
    [] c = "d" -> 100
    [] c = "e" -> 101
    [] c = "f" -> 102
    [] c = "g" -> 103
    [] c = "i" -> 105
    [] c = "l" -> 108
    [] c = "n" -> 110
    [] c = "t" -> 116
    [] c = "u" -> 117
    [] c = "x" -> 120
    [] c = "|" -> 124
    [] OTHER -> 63

Digits == {"0", "1"}

\* strings.ToLower, on the letters of the model
LowerChar(c) == IF c = "A" THEN "a" ELSE IF c = "T" THEN "t" ELSE c
ToLower(s) == [i \in 1..Len(s) |-> LowerChar(s[i])]

RECURSIVE TrimLeft(_)
TrimLeft(s) == IF s # <<>> /\ Head(s) = " " THEN TrimLeft(Tail(s)) ELSE s

RECURSIVE TrimRight(_)
TrimRight(s) ==
  IF s # <<>> /\ s[Len(s)] = " " THEN TrimRight(SubSeq(s, 1, Len(s) - 1)) ELSE s

\* strings.TrimSpace
TrimSpace(s) == TrimRight(TrimLeft(s))

\* byte-wise lexicographic order of Go strings
RECURSIVE StrLess(_, _)
StrLess(a, b) ==
  IF b = <<>> THEN FALSE
  ELSE IF a = <<>> THEN TRUE
  ELSE IF Head(a) = Head(b) THEN StrLess(Tail(a), Tail(b))
  ELSE CharCode(Head(a)) < CharCode(Head(b))

\* sort.Strings over the keys of a map (a set of strings)
RECURSIVE SortStrings(_)
SortStrings(S) ==
  IF S = {} THEN <<>>
  ELSE LET m == CHOOSE x \in S : \A y \in S \ {x} : StrLess(x, y)
       IN <<m>> \o SortStrings(S \ {m})

\* strings.Join
RECURSIVE Join(_, _)
Join(parts, sep) ==
  IF parts = <<>> THEN <<>>
  ELSE IF Len(parts) = 1 THEN parts[1]
  ELSE parts[1] \o sep \o Join(Tail(parts), sep)

(***************************************************************************)
(* Optional float64 (pointer to float64): <<>> is nil, <<v>> is a value.   *)
(***************************************************************************)
Nil == <<>>

IsNumeric(s) == s # <<>> /\ \A i \in 1..Len(s) : s[i] \in Digits

RECURSIVE ParseNat(_)
ParseNat(s) ==
  IF s = <<>> THEN 0
  ELSE 10 * ParseNat(SubSeq(s, 1, Len(s) - 1)) + (CharCode(s[Len(s)]) - 48)

RECURSIVE FormatNat(_)
FormatNat(n) ==
  IF n < 10 THEN <<IF n = 0 THEN "0" ELSE "1">>
  ELSE FormatNat(n \div 10) \o <<IF n % 10 = 0 THEN "0" ELSE "1">>

\* variant: a value that does not parse is taken as absent
parseFloatLenient(val) ==
  IF IsNumeric(val) THEN [ok |-> TRUE, v |-> <<ParseNat(val)>>] ELSE [ok |-> TRUE, v |-> Nil]

\* parseFloat: blank is nil without error, otherwise strconv.ParseFloat
parseFloat(val) ==
  IF TrimSpace(val) = <<>> THEN [ok |-> TRUE, v |-> Nil]
  ELSE IF IsNumeric(val) THEN [ok |-> TRUE, v |-> <<ParseNat(val)>>]
  ELSE [ok |-> FALSE, v |-> Nil]

\* formatFloat: "" for nil, otherwise the shortest decimal representation
formatFloat(v) == IF v = Nil THEN <<>> ELSE FormatNat(v[1])

(***************************************************************************)
(* Column resolution (resolveColumns).  Column indexes are Go's: 0-based   *)
(* positions in the row, -1 when the column is absent.                     *)
(***************************************************************************)
NoColumn(name) == [Name |-> name, Index |-> -1]

\* the lookup map built from the header: the last header cell whose trimmed,
\* lower-cased name equals key
HasColumn(header, key) ==
  \E i \in 1..Len(header) :
    TrimSpace(header[i]) # <<>> /\ ToLower(TrimSpace(header[i])) = key

LookupColumn(header, key) ==
  LET hits == {i \in 1..Len(header) :
                 TrimSpace(header[i]) # <<>> /\ ToLower(TrimSpace(header[i])) = key}
      i == CHOOSE j \in hits : \A k \in hits : k <= j
  IN [Name |-> TrimSpace(header[i]), Index |-> i - 1]

\* the closure get(name, required) of resolveColumns
get(header, name, required) ==
  LET cleaned == TrimSpace(name)
  IN IF cleaned = <<>>
       THEN [ok |-> ~required, ci |-> NoColumn(cleaned)]
     ELSE IF HasColumn(header, ToLower(cleaned))
       THEN [ok |-> TRUE, ci |-> LookupColumn(header, ToLower(cleaned))]
     ELSE [ok |-> ~required, ci |-> NoColumn(cleaned)]

\* the closure addMetadata: append unless absent or already present by name
addMetadata(list, ci) ==
  IF ci.Index < 0 \/ \E j \in 1..Len(list) : list[j].Name = ci.Name
    THEN list
    ELSE Append(list, ci)

\* metadata columns when every header column is kept
RECURSIVE AllMetadata(_, _, _)
AllMetadata(header, i, list) ==
  IF i > Len(header) THEN list
  ELSE IF TrimSpace(header[i]) = <<>> THEN AllMetadata(header, i + 1, list)
  ELSE AllMetadata(header, i + 1,
         addMetadata(list, [Name |-> TrimSpace(header[i]), Index |-> i - 1]))

\* explicitly named columns, each of them required
RECURSIVE NamedColumns(_, _, _)
NamedColumns(header, names, list) ==
  IF names = <<>> THEN [ok |-> TRUE, list |-> list]
  ELSE LET g == get(header, Head(names), TRUE)
       IN IF ~g.ok THEN [ok |-> FALSE, list |-> list]
          ELSE NamedColumns(header, Tail(names), addMetadata(list, g.ci))

\* default text columns: the metadata columns except id, lat and lng
RECURSIVE DefaultText(_, _, _, _)
DefaultText(meta, id, lat, lng) ==
  IF meta = <<>> THEN <<>>
  ELSE LET ci == Head(meta)
           rest == DefaultText(Tail(meta), id, lat, lng)
       IN IF \/ ci.Index = id.Index
             \/ (lat.Index >= 0 /\ ci.Index = lat.Index)
             \/ (lng.Index >= 0 /\ ci.Index = lng.Index)
            THEN rest
            ELSE <<ci>> \o rest

NoIndexes ==
  [ID |-> NoColumn(<<>>), Text |-> <<>>, Metadata |-> <<>>,
   Lat |-> NoColumn(<<>>), Lng |-> NoColumn(<<>>)]

\* variant: resolveColumns goes on without an id column
idMissingNever(id) == FALSE

\* the id column is blank or not in the header: resolveColumns returns an error
idMissing(id) == ~id.ok \/ id.ci.Index < 0

resolveColumns(header, cols) ==
  LET id  == get(header, cols.ID, TRUE)
      lat == get(header, cols.Lat, FALSE)
      lng == get(header, cols.Lng, FALSE)
      includeAll == \/ Len(cols.Metadata) = 0
                    \/ (Len(cols.Metadata) = 1 /\ TrimSpace(cols.Metadata[1]) = <<"*">>)
      named == IF includeAll
                 THEN [ok |-> TRUE, list |-> AllMetadata(header, 1, <<>>)]
                 ELSE NamedColumns(header, cols.Metadata, <<>>)
      meta1 == addMetadata(named.list, id.ci)
      meta2 == IF lat.ci.Index >= 0 THEN addMetadata(meta1, lat.ci) ELSE meta1
      meta3 == IF lng.ci.Index >= 0 THEN addMetadata(meta2, lng.ci) ELSE meta2
      text == IF Len(cols.Text) = 0
                THEN [ok |-> TRUE, list |-> DefaultText(meta3, id.ci, lat.ci, lng.ci)]
                ELSE NamedColumns(header, cols.Text, <<>>)
  IN IF idMissing(id) THEN [ok |-> FALSE, idx |-> NoIndexes]
     ELSE IF ~lat.ok \/ ~lng.ok \/ ~named.ok \/ ~text.ok
       THEN [ok |-> FALSE, idx |-> NoIndexes]
     ELSE [ok |-> TRUE,
           idx |-> [ID |-> id.ci, Text |-> text.list, Metadata |-> meta3,
                    Lat |-> lat.ci, Lng |-> lng.ci]]

(***************************************************************************)
(* Parsing of one data row (buildRecord).                                  *)
(***************************************************************************)
\* the closure get(i) of buildRecord: the trimmed cell, "" when out of range
cell(row, i) == IF i < 0 \/ i >= Len(row) THEN <<>> ELSE TrimSpace(row[i + 1])

NoRecord == [ID |-> <<>>, Metadata |-> <<>>, TextParts |-> <<>>, Lat |-> Nil, Lng |-> Nil]

\* the non-blank text cells, in column order
RECURSIVE textParts(_, _)
textParts(row, cols) ==
  IF cols = <<>> THEN <<>>
  ELSE LET val == cell(row, Head(cols).Index)
       IN (IF TrimSpace(val) # <<>> THEN <<val>> ELSE <<>>) \o textParts(row, Tail(cols))

buildRecord(row, idx) ==
  LET idVal == cell(row, idx.ID.Index)
      names == {idx.Metadata[j].Name : j \in 1..Len(idx.Metadata)}
      metaOf == [n \in names |->
                   LET j == CHOOSE k \in 1..Len(idx.Metadata) : idx.Metadata[k].Name = n
                   IN cell(row, idx.Metadata[j].Index)]
      lat == IF idx.Lat.Index >= 0 THEN parseFloat(cell(row, idx.Lat.Index))
                                   ELSE [ok |-> TRUE, v |-> Nil]
      lng == IF idx.Lng.Index >= 0 THEN parseFloat(cell(row, idx.Lng.Index))
                                   ELSE [ok |-> TRUE, v |-> Nil]
  IN IF idx.ID.Index >= Len(row) \/ idx.ID.Index < 0 THEN [ok |-> FALSE, rec |-> NoRecord]
     ELSE IF idVal = <<>> THEN [ok |-> FALSE, rec |-> NoRecord]
     ELSE IF ~lat.ok \/ ~lng.ok THEN [ok |-> FALSE, rec |-> NoRecord]
     ELSE [ok |-> TRUE,
           rec |-> [ID |-> idVal, Metadata |-> metaOf,
                    TextParts |-> textParts(row, idx.Text),
                    Lat |-> lat.v, Lng |-> lng.v]]

\* embeddingText: the text parts joined by newline
embeddingText(rec) == Join(rec.TextParts, <<"\n">>)

(***************************************************************************)
(* Fingerprint (hashRecord).  SHA-256 is taken to be collision free, so    *)
(* the fingerprint is represented by the string that is hashed.            *)
(***************************************************************************)
hashInput(dataset, rec) ==
  LET keys == SortStrings(DOMAIN rec.Metadata)
      text == IF Len(rec.TextParts) > 0 THEN <<Join(rec.TextParts, <<"\n">>)>> ELSE <<>>
      pairs == [i \in 1..Len(keys) |-> keys[i] \o <<"=">> \o rec.Metadata[keys[i]]]
  IN <<dataset, rec.ID>> \o text \o pairs \o <<formatFloat(rec.Lat), formatFloat(rec.Lng)>>

hashRecord(dataset, rec) == Join(hashInput(dataset, rec), <<"|">>)

(***************************************************************************)
(* Vector codec (vector.Serialize, vector.Deserialize).  A float32 is      *)
(* represented by its IEEE-754 bit pattern, a number below 2^32 written as *)
(* its two halves of 16 bits.                                              *)
(***************************************************************************)
\* the uint32 hi * 2^16 + lo
U32(hi, lo) == [hi |-> hi, lo |-> lo]

\* variant: the bytes of an element are written most significant first
PutUint32BigEndian(bits) ==
  <<bits.hi \div 256, bits.hi % 256, bits.lo \div 256, bits.lo % 256>>

\* binary.LittleEndian.PutUint32
PutUint32(bits) ==
  <<bits.lo % 256, bits.lo \div 256, bits.hi % 256, bits.hi \div 256>>

\* binary.LittleEndian.Uint32
Uint32(b) == U32(b[3] + 256 * b[4], b[1] + 256 * b[2])

RECURSIVE Serialize(_)
Serialize(vec) ==
  IF vec = <<>> THEN <<>> ELSE PutUint32(Head(vec)) \o Serialize(Tail(vec))

Deserialize(data) ==
  IF Len(data) % 4 # 0 THEN [ok |-> FALSE, vec |-> <<>>]
  ELSE [ok |-> TRUE,
        vec |-> [i \in 1..(Len(data) \div 4) |-> Uint32(SubSeq(data, 4 * i - 3, 4 * i))]]

\* the arguments the codec is called with: float32 values, among them 0.0,
\* 1.0, -1.0, a NaN, the smallest patterns, the largest one and one whose
\* four bytes differ; and bytes
CodecFloats ==
  {U32(0, 0), U32(0, 1), U32(0, 256), U32(258, 772), U32(16256, 0), U32(49024, 0),
   U32(32704, 0), U32(65535, 65535)}
CodecBytes == {0, 1, 255}

SeqsUpTo(S, n) == UNION {[1..k -> S] : k \in 0..n}

\* no call of the codec
IdleCodec == [pc |-> "none", vec |-> <<>>, data |-> <<>>, ok |-> TRUE, out |-> <<>>]

CodecArgs ==
  {[IdleCodec EXCEPT !.pc = "vec", !.vec = v] : v \in SeqsUpTo(CodecFloats, MaxVecLen)}
    \cup {[IdleCodec EXCEPT !.pc = "blob", !.data = b] : b \in SeqsUpTo(CodecBytes, MaxBlobLen)}

(***************************************************************************)
(* Encoder.Encode: a deterministic, non-empty vector for a text (the model *)
(* output has e.hidden > 0 components).                                    *)
(***************************************************************************)
\* math.Float32bits of 0.0, 1.0 and 2.0
Float32bits(n) == IF n = 0 THEN U32(0, 0) ELSE IF n = 1 THEN U32(16256, 0) ELSE U32(16384, 0)

EncodeVec(text) == <<Float32bits(Len(text) % 3), Float32bits(CharCode(text[1]) % 3)>>

(***************************************************************************)
(* The store: the four relations of the schema.  Relations are sets of     *)
(* rows, so that key uniqueness is a property to check and not a           *)
(* consequence of the representation.                                      *)
(***************************************************************************)
EmptyStore == [records |-> {}, vec |-> {}, fts |-> {}, rtree |-> {}]

\* the rowid SQLite gives a new row of records: one more than the largest
NextRowid(records) ==
  IF records = {} THEN 1
  ELSE 1 + (CHOOSE m \in {r.rowid : r \in records} :
              \A r \in records : r.rowid <= m)

\* variant: a plain INSERT on a table without the (dataset, id) key
InsertRecords(records, dataset, id, data, lat, lng, hash) ==
  records \cup {[rowid |-> NextRowid(records), dataset |-> dataset, id |-> id,
                 data |-> data, lat |-> lat, lng |-> lng, hash |-> hash]}

\* INSERT INTO records ... ON CONFLICT(dataset, id) DO UPDATE SET data, lat, lng, hash
UpsertRecords(records, dataset, id, data, lat, lng, hash) ==
  IF \E r \in records : r.dataset = dataset /\ r.id = id
    THEN {IF r.dataset = dataset /\ r.id = id
            THEN [r EXCEPT !.data = data, !.lat = lat, !.lng = lng, !.hash = hash]
            ELSE r : r \in records}
    ELSE records \cup {[rowid |-> NextRowid(records), dataset |-> dataset, id |-> id,
                        data |-> data, lat |-> lat, lng |-> lng, hash |-> hash]}

\* variant: the rowid of the last inserted row is taken (last_insert_rowid)
SelectRowidLast(records, dataset, id) == NextRowid(records) - 1

\* SELECT rowid FROM records WHERE dataset = ? AND id = ?
SelectRowid(records, dataset, id) ==
  (CHOOSE r \in records : r.dataset = dataset /\ r.id = id).rowid

\* DELETE FROM records_fts WHERE rowid = ?
DeleteFts(fts, rowid) == {f \in fts : f.rowid # rowid}

\* INSERT INTO records_fts(rowid, dataset, id, content)
InsertFts(fts, rowid, dataset, id, content) ==
  fts \cup {[rowid |-> rowid, dataset |-> dataset, id |-> id, content |-> content]}

\* INSERT OR REPLACE INTO records_rtree VALUES(rowid, lat, lat, lng, lng)
ReplaceRtree(rtree, rowid, lat, lng) ==
  {g \in rtree : g.rowid # rowid}
    \cup {[rowid |-> rowid, min_lat |-> lat, max_lat |-> lat,
           min_lng |-> lng, max_lng |-> lng]}

\* DELETE FROM records_rtree WHERE rowid = ?
DeleteRtree(rtree, rowid) == {g \in rtree : g.rowid # rowid}

\* variant: the key of records_vec is the id alone
UpsertVecAnyDataset(vec, dataset, id, blob) ==
  {v \in vec : v.id # id}
    \cup {[dataset |-> dataset, id |-> id, embedding |-> blob]}

\* INSERT INTO records_vec ... ON CONFLICT(dataset, id) DO UPDATE SET embedding
UpsertVec(vec, dataset, id, blob) ==
  {v \in vec : ~(v.dataset = dataset /\ v.id = id)}
    \cup {[dataset |-> dataset, id |-> id, embedding |-> blob]}

\* variant: the DELETE leaves out the dataset condition
DeleteVecAnyDataset(vec, dataset, id) == {v \in vec : v.id # id}

\* DELETE FROM records_vec WHERE dataset = ? AND id = ?
DeleteVec(vec, dataset, id) == {v \in vec : ~(v.dataset = dataset /\ v.id = id)}

\* variant: the stored hash is never taken to be equal
shouldSkipNever(records, dataset, id, hash) == FALSE

\* shouldSkip: the stored hash of (dataset, id) exists and equals hash
shouldSkip(records, dataset, id, hash) ==
  \E r \in records : r.dataset = dataset /\ r.id = id /\ r.hash = hash

(***************************************************************************)
(* Inputs of the model.                                                    *)
(***************************************************************************)
sId  == <<"i", "d">>
sT   == <<"t">>
sA   == <<"a">>
sLat == <<"l", "a", "t">>
sLng == <<"l", "n", "g">>

Header == <<sId, sT, sA, sLat, sLng>>

ColsFull    == [ID |-> sId, Text |-> <<sT>>, Metadata |-> <<sA>>, Lat |-> sLat, Lng |-> sLng]
ColsDefault == [ID |-> sId, Text |-> <<>>, Metadata |-> <<>>, Lat |-> <<>>, Lng |-> <<>>]
ColsNoId    == [ID |-> <<" ">>, Text |-> <<sT>>, Metadata |-> <<sA>>, Lat |-> sLat, Lng |-> sLng]

ColsBadId   == [ID |-> <<"x">>, Text |-> <<sT>>, Metadata |-> <<sA>>, Lat |-> sLat, Lng |-> sLng]

ColumnConfigs == {ColsFull, ColsDefault, ColsNoId, ColsBadId}

\* data rows: cells id, t, a, lat, lng
RowText   == << <<"1">>, <<"a", "=", "1">>, <<"1">>, <<>>, <<>> >>
RowNoText == << <<"1">>, <<>>, <<"1", "|", "a", "=", "1">>, <<>>, <<>> >>
RowGeo    == << <<"1">>, <<"t">>, <<"1">>, <<"1">>, <<"0", "1">> >>
RowHalf   == << <<"1", " ">>, <<"t">>, <<"1">>, <<"1">>, <<" ">> >>
RowTwo    == << <<"0">>, <<"t">>, <<"0">>, <<>>, <<>> >>
RowBadLat == << <<"0">>, <<"t">>, <<"0">>, <<"x">>, <<>> >>

RowNoId   == << <<" ">>, <<"t">>, <<"1">>, <<>>, <<>> >>

Rows == {RowText, RowNoText, RowGeo, RowHalf, RowTwo, RowBadLat, RowNoId}

DatasetNames == {<<>>, <<"A">>}
BatchSizes == {0, 1, 2}

DefaultBatchSize == 1000
DefaultDataset == <<"d", "e", "f", "a", "u", "l", "t">>

\* the options of a call of Run: dataset "A" is ingested with either column
\* configuration, the default dataset with explicitly named columns
RunOptions ==
  {o \in [Dataset : DatasetNames, BatchSize : BatchSizes, Columns : ColumnConfigs] :
     o.Columns = ColsDefault => o.Dataset = <<"A">>}

\* the batch size Run uses
batchSizeOf(opts) == IF opts.BatchSize <= 0 THEN DefaultBatchSize ELSE opts.BatchSize

\* the dataset Run writes to
datasetOf(opts) ==
  IF TrimSpace(opts.Dataset) = <<>> THEN DefaultDataset ELSE TrimSpace(opts.Dataset)

\* variant: the test is made on the count before the increment
batchFullEarly(rowsProcessed, batchSize) == (rowsProcessed - 1) % batchSize = 0

\* the commit test after a row was applied
batchFull(rowsProcessed, batchSize) == rowsProcessed % batchSize = 0

(***************************************************************************)
(* State.                                                                  *)
(***************************************************************************)
VARIABLES
  db,        \* the store as seen on its connection, uncommitted writes included
  committed, \* the store as of the last commit
  conn,      \* the processes holding a connection of the pool
  ing,       \* ingest.Run: position and locals
  input,     \* the data rows the csv reader has delivered in this run
  obs,       \* observations of the current run (history variables)
  runs,      \* number of calls of ingest.Run so far
  prev,      \* the last call of Run when it completed successfully
  wrote,     \* per record, what the last row that wrote it contained (history)
  srch,      \* search.VectorSearch: position and locals
  seen,      \* the committed stores since the search was called (history)
  codec,     \* vector.Serialize, vector.Deserialize: arguments and results
  mu,        \* the processes holding Encoder.mu
  encodeMu,  \* the requests holding Server.encodeMu
  http,      \* Server.handleSearch, per request: position, locals, response
  call,      \* a call of resolveColumns or decodeSearchRequest: argument, result
  entry,     \* an entry point (command or Service method) and the database file
  srv,       \* serving: auto-ingest, Server.Serve, its goroutine and channel
  svc        \* a Service and the callers of ensureEncoder

vars == <<db, committed, conn, ing, input, obs, runs, prev, wrote, srch, seen,
          mu, encodeMu, http, codec, call, entry, srv, svc>>

\* sql.DB.SetMaxOpenConns(1)
MaxOpenConns == 1

\* variant: the pool hands the connection out while it is in use
connShared == TRUE

\* a process can take a connection from the pool
connFree == Cardinality(conn) < MaxOpenConns

IdleRun ==
  [pc |-> "idle", opts |-> [Dataset |-> <<>>, BatchSize |-> 0, Columns |-> ColsFull],
   dataset |-> <<>>, idx |-> NoIndexes, batchSize |-> 0, rowsProcessed |-> 0,
   rec |-> NoRecord, hash |-> <<>>, embedding |-> <<>>, rowid |-> 0,
   replay |-> FALSE, result |-> "none",
   track |-> "none"] \* "first": a run to be repeated when it fails; "retry",
                     \* "resume": its repetition, after it had committed rows

NoObs ==
  [encCalls |-> 0,   \* calls of Encoder.Encode in this run
   txRows |-> 0,     \* rows applied in the open transaction
   commits |-> 0,    \* commits of this run
   lastCommit |-> EmptyStore] \* the store when the run started or last committed

IdleSearch ==
  [pc |-> "idle", dataset |-> <<>>, query |-> <<>>, topK |-> 0, filters |-> <<>>,
   qvec |-> <<>>, scanned |-> {}, results |-> <<>>,
   asked |-> 0]      \* the topK argument as passed (history)

\* the requests the server handles, each one once
Requests == 1..MaxRequests

IdleHttp ==
  [pc |-> "idle", dataset |-> <<>>, query |-> <<>>, topK |-> 0, filters |-> <<>>,
   qvec |-> <<>>, results |-> <<>>,
   err |-> "none",   \* the error VectorSearch returned
   status |-> 0]     \* the status of the response, 0 while there is none

\* the name under which request r holds a lock or a connection
Handler(r) == "http" \o ToString(r)

NoPrev == [ok |-> FALSE, opts |-> IdleRun.opts, input |-> <<>>, state |-> EmptyStore]

\* no call, no entry point, no server, no Service
IdleCall == [pc |-> "none"]
IdleEntry == [pc |-> "none"]
IdleSrv == [pc |-> "none"]
IdleSvc == [pc |-> "none"]

Init ==
  /\ db = EmptyStore
  /\ committed = EmptyStore
  /\ conn = {}
  /\ ing = IdleRun
  /\ input = <<>>
  /\ obs = NoObs
  /\ runs = 0
  /\ prev = NoPrev
  /\ wrote = [live |-> {}, durable |-> {}]
  /\ srch = IdleSearch
  /\ seen = {}
  /\ mu = {}
  /\ encodeMu = {}
  /\ http = [r \in Requests |-> IdleHttp]
  /\ codec = IdleCodec
  /\ call = IdleCall
  /\ entry = IdleEntry
  /\ srv = IdleSrv
  /\ svc = IdleSvc

(***************************************************************************)
(* ingest.Run                                                              *)
(***************************************************************************)
\* Run is called: header read, columns resolved, batch size and dataset set.
\* replay: the call repeats the previous successful call, input and options.
StartRun(opts, replay) ==
  /\ ing.pc = "idle"
  /\ runs < MaxRuns
  /\ replay => (prev.ok /\ opts = prev.opts)
  /\ runs' = runs + 1
  /\ input' = <<>>
  /\ obs' = [NoObs EXCEPT !.lastCommit = committed]
  /\ prev' = IF replay THEN prev ELSE NoPrev
  /\ LET res == resolveColumns(Header, opts.Columns)
     IN IF ~res.ok
          THEN ing' = [IdleRun EXCEPT !.result = "config_error"]
          ELSE ing' = [IdleRun EXCEPT !.pc = "begin", !.opts = opts,
                                      !.dataset = datasetOf(opts),
                                      !.idx = res.idx,
                                      !.batchSize = batchSizeOf(opts),
                                      !.replay = replay]
  /\ UNCHANGED <<db, committed, conn, wrote, srch, seen>>
  /\ UNCHANGED <<mu, encodeMu, http, codec, call, entry, srv, svc>>

\* Run has returned: its locals are gone
Returned(run, result) ==
  [IdleRun EXCEPT !.replay = run.replay, !.track = run.track, !.result = result]

\* a run that is to be repeated leaves the rows it had read
Noted ==
  IF ing.track = "none" THEN prev
  ELSE [prev EXCEPT !.input = IF Len(input) > Len(@) THEN input ELSE @]

\* variant: the commit makes the primary records durable only
commitPrimary(live, durable) == [durable EXCEPT !.records = live.records]

\* tx.Commit: the writes of the transaction become durable
commit(live, durable) == live

\* the observations that outlive the run
Forget(o) == [NoObs EXCEPT !.lastCommit = o.lastCommit]

\* variant: Run returns without the deferred Rollback
rollbackMissing(live, durable) == live

\* tx.Rollback: the uncommitted writes are undone
rollback(live, durable) == durable

\* db.BeginTx: waits for the connection
BeginTx ==
  /\ ing.pc = "begin"
  /\ connFree
  /\ conn' = conn \cup {"ingest"}
  /\ ing' = [ing EXCEPT !.pc = "read"]
  /\ UNCHANGED <<db, committed, input, obs, runs, prev, wrote, srch, seen>>
  /\ UNCHANGED <<mu, encodeMu, http, codec, call, entry, srv, svc>>

\* the rows the reader can deliver next
NextRows ==
  IF ing.replay
    THEN IF Len(input) < Len(prev.input) THEN {prev.input[Len(input) + 1]} ELSE {}
    ELSE IF ing.track \in {"retry", "resume"} /\ Len(input) < Len(prev.input)
      THEN {prev.input[Len(input) + 1]}
    ELSE IF Len(input) < MaxRows THEN Rows ELSE {}

AtEOF ==
  IF ing.replay THEN Len(input) = Len(prev.input)
  ELSE IF ing.track \in {"retry", "resume"} THEN Len(input) >= Len(prev.input)
  ELSE TRUE

\* reader.Read returns a row: buildRecord, hashRecord, shouldSkip
ReadRow(row) ==
  /\ ing.pc = "read"
  /\ row \in NextRows
  /\ LET built == buildRecord(row, ing.idx)
         hash == hashRecord(ing.dataset, built.rec)
     IN IF ~built.ok
          THEN \* return with an error: the deferred Rollback runs
               /\ ing' = Returned(ing, "error")
               /\ db' = rollback(db, committed)
               /\ conn' = conn \ {"ingest"}
               /\ obs' = Forget(obs)
               /\ input' = <<>>
               /\ wrote' = [wrote EXCEPT !.live = wrote.durable]
        ELSE IF shouldSkip(db.records, ing.dataset, built.rec.ID, hash)
          THEN /\ input' = Append(input, row)
               /\ UNCHANGED <<ing, db, conn, obs, wrote>>
        ELSE IF TrimSpace(embeddingText(built.rec)) # <<>>
          THEN /\ ing' = [ing EXCEPT !.pc = "encode", !.rec = built.rec, !.hash = hash,
                                     !.embedding = <<>>]
               /\ obs' = [obs EXCEPT !.encCalls = @ + 1]
               /\ input' = Append(input, row)
               /\ UNCHANGED <<db, conn, wrote>>
        ELSE /\ ing' = [ing EXCEPT !.pc = "upsert_records", !.rec = built.rec,
                                   !.hash = hash, !.embedding = <<>>]
             /\ input' = Append(input, row)
             /\ UNCHANGED <<db, conn, obs, wrote>>
  /\ prev' = IF buildRecord(row, ing.idx).ok THEN prev ELSE Noted
  /\ UNCHANGED <<committed, runs, srch, seen>>
  /\ UNCHANGED <<mu, encodeMu, http, codec, call, entry, srv, svc>>

\* reader.Read returns io.EOF
ReadEOF ==
  /\ ing.pc = "read"
  /\ AtEOF
  /\ ing' = [ing EXCEPT !.pc = "final"]
  /\ UNCHANGED <<db, committed, conn, input, obs, runs, prev, wrote, srch, seen>>
  /\ UNCHANGED <<mu, encodeMu, http, codec, call, entry, srv, svc>>

\* variant: Encode runs the session without taking the lock
muFreeAlways == TRUE

\* Encoder.mu is not held
muFree == mu = {}

\* variant: Encode returns without e.mu.Unlock
muKept(holders, p) == holders

\* e.mu.Unlock
muUnlock(holders, p) == holders \ {p}

\* enc.Encode, up to e.mu.Lock: the text is tokenized, the lock is taken
EncodeLock ==
  /\ ing.pc = "encode"
  /\ muFree
  /\ mu' = mu \cup {"ingest"}
  /\ ing' = [ing EXCEPT !.pc = "encode_run"]
  /\ UNCHANGED <<call, entry, srv, svc, codec, db, committed, conn, input, obs, runs, prev, wrote, srch, seen,
                 encodeMu, http>>

\* enc.Encode: the session has run, the lock is released, the embedding returned
EncodeOk ==
  /\ ing.pc = "encode_run"
  /\ mu' = muUnlock(mu, "ingest")
  /\ ing' = [ing EXCEPT !.pc = "upsert_records",
                        !.embedding = EncodeVec(embeddingText(ing.rec))]
  /\ UNCHANGED <<db, committed, conn, input, obs, runs, prev, wrote, srch, seen>>
  /\ UNCHANGED <<encodeMu, http, codec, call, entry, srv, svc>>

\* upsertRecord, first statement: the primary record, then its rowid
UpsertPrimary ==
  /\ ing.pc = "upsert_records"
  /\ LET records == UpsertRecords(db.records, ing.dataset, ing.rec.ID, ing.rec.Metadata,
                                  ing.rec.Lat, ing.rec.Lng, ing.hash)
     IN /\ db' = [db EXCEPT !.records = records]
        /\ ing' = [ing EXCEPT !.pc = "upsert_derived",
                              !.rowid = SelectRowid(records, ing.dataset, ing.rec.ID)]
  /\ wrote' = [wrote EXCEPT !.live =
                 {w \in @ : ~(w.dataset = ing.dataset /\ w.id = ing.rec.ID)}
                   \cup {[dataset |-> ing.dataset, id |-> ing.rec.ID,
                          text |-> embeddingText(ing.rec),
                          lat |-> ing.rec.Lat, lng |-> ing.rec.Lng]}]
  /\ UNCHANGED <<committed, conn, input, obs, runs, prev, srch, seen>>
  /\ UNCHANGED <<mu, encodeMu, http, codec, call, entry, srv, svc>>

\* upsertRecord: the lexical entry is deleted, and inserted when there is text
ftsAfter(fts, rowid, dataset, rec) ==
  IF TrimSpace(embeddingText(rec)) # <<>>
    THEN InsertFts(DeleteFts(fts, rowid), rowid, dataset, rec.ID, embeddingText(rec))
    ELSE DeleteFts(fts, rowid)

\* variant: no DELETE when a coordinate is missing
rtreeAfterKeep(rtree, rowid, rec) ==
  IF rec.Lat # Nil /\ rec.Lng # Nil
    THEN ReplaceRtree(rtree, rowid, rec.Lat[1], rec.Lng[1])
    ELSE rtree

\* upsertRecord: the spatial entry is replaced when both coordinates are set
rtreeAfter(rtree, rowid, rec) ==
  IF rec.Lat # Nil /\ rec.Lng # Nil
    THEN ReplaceRtree(rtree, rowid, rec.Lat[1], rec.Lng[1])
    ELSE DeleteRtree(rtree, rowid)

\* variant: no DELETE when there is no embedding
vecAfterKeep(vec, dataset, rec, embedding) ==
  IF Len(embedding) > 0
    THEN UpsertVec(vec, dataset, rec.ID, Serialize(embedding))
    ELSE vec

\* upsertRecord: the embedding is replaced when there is one
vecAfter(vec, dataset, rec, embedding) ==
  IF Len(embedding) > 0
    THEN UpsertVec(vec, dataset, rec.ID, Serialize(embedding))
    ELSE DeleteVec(vec, dataset, rec.ID)

\* upsertRecord, the statements on the derived relations; then rowsProcessed++
\* and the batch test
UpsertDerived ==
  /\ ing.pc = "upsert_derived"
  /\ db' = [db EXCEPT !.fts = ftsAfter(@, ing.rowid, ing.dataset, ing.rec),
                      !.rtree = rtreeAfter(@, ing.rowid, ing.rec),
                      !.vec = vecAfter(@, ing.dataset, ing.rec, ing.embedding)]
  /\ ing' = [ing EXCEPT !.rowsProcessed = @ + 1,
                        !.pc = IF batchFull(ing.rowsProcessed + 1, ing.batchSize)
                                 THEN "commit" ELSE "read",
                        !.rec = NoRecord, !.hash = <<>>, !.embedding = <<>>,
                        !.rowid = 0]
  /\ obs' = [obs EXCEPT !.txRows = @ + 1]
  /\ UNCHANGED <<committed, conn, input, runs, prev, wrote, srch, seen>>
  /\ UNCHANGED <<mu, encodeMu, http, codec, call, entry, srv, svc>>

\* a commit while a search is under way adds a store the search may observe
Observe(stores, S) == IF srch.pc \in {"idle", "s_done"} THEN stores ELSE stores \cup {S}

\* tx.Commit at a batch boundary
CommitBatch ==
  /\ ing.pc = "commit"
  /\ committed' = commit(db, committed)
  /\ conn' = conn \ {"ingest"}
  /\ ing' = [ing EXCEPT !.pc = "begin"]
  /\ obs' = [obs EXCEPT !.txRows = 0, !.commits = @ + 1, !.lastCommit = db]
  /\ wrote' = [wrote EXCEPT !.durable = wrote.live]
  /\ seen' = Observe(seen, db)
  /\ UNCHANGED <<db, input, runs, prev, srch>>
  /\ UNCHANGED <<mu, encodeMu, http, codec, call, entry, srv, svc>>

\* tx.Commit at end of input; Run returns nil
CommitFinal ==
  /\ ing.pc = "final"
  /\ committed' = commit(db, committed)
  /\ conn' = conn \ {"ingest"}
  /\ ing' = Returned(ing, "ok")
  /\ obs' = [NoObs EXCEPT !.lastCommit = db]
  /\ prev' = IF ing.replay THEN prev
              ELSE [ok |-> TRUE, opts |-> ing.opts, input |-> input, state |-> db]
  /\ input' = <<>>
  /\ wrote' = [wrote EXCEPT !.durable = wrote.live]
  /\ seen' = Observe(seen, db)
  /\ UNCHANGED <<db, runs, srch>>
  /\ UNCHANGED <<mu, encodeMu, http, codec, call, entry, srv, svc>>

\* a step of Run fails (csv read error, encoder error, storage error, context
\* error): Run returns the error and the deferred Rollback runs
RunFails ==
  /\ ing.pc \in {"begin", "read", "encode", "encode_run", "upsert_records",
                 "upsert_derived", "commit", "final"}
  /\ mu' = IF ing.pc = "encode_run" THEN muUnlock(mu, "ingest") ELSE mu
  /\ db' = rollback(db, committed)
  /\ conn' = conn \ {"ingest"}
  /\ ing' = Returned(ing, "error")
  /\ obs' = Forget(obs)
  /\ input' = <<>>
  /\ wrote' = [wrote EXCEPT !.live = wrote.durable]
  /\ prev' = Noted
  /\ UNCHANGED <<committed, runs, srch, seen>>
  /\ UNCHANGED <<encodeMu, http, codec, call, entry, srv, svc>>

\* the caller cancels the context of the run: database/sql rolls the open
\* transaction back, and every later call of Run on the store fails with the
\* context's error, so nothing more is written; Encode takes no context and
\* runs to its end
Cancel ==
  /\ ing.pc \notin {"idle", "begin", "encode_run"}
  /\ db' = rollback(db, committed)
  /\ conn' = conn \ {"ingest"}
  /\ ing' = Returned(ing, "cancelled")
  /\ obs' = Forget(obs)
  /\ input' = <<>>
  /\ wrote' = [wrote EXCEPT !.live = wrote.durable]
  /\ prev' = Noted
  /\ UNCHANGED <<committed, runs, srch, seen>>
  /\ UNCHANGED <<mu, encodeMu, http, codec, call, entry, srv, svc>>

(***************************************************************************)
(* vector.Cosine.  The score is kept as the three sums the function        *)
(* accumulates; scores are compared as the real numbers                    *)
(* dot / (sqrt(na) * sqrt(nb)), all components being non-negative.         *)
(***************************************************************************)
\* math.Float32frombits on the bit patterns of 0.0, 1.0 and 2.0
Float32frombits(bits) ==
  IF bits = U32(0, 0) THEN 0 ELSE IF bits = U32(16256, 0) THEN 1 ELSE 2

RECURSIVE Dot(_, _)
Dot(a, b) == IF a = <<>> THEN 0 ELSE Head(a) * Head(b) + Dot(Tail(a), Tail(b))

ZeroScore == [dot |-> 0, na |-> 1, nb |-> 1]

Cosine(a, b) ==
  IF Len(a) = 0 \/ Len(b) = 0 \/ Len(a) # Len(b) THEN ZeroScore
  ELSE LET fa == [i \in 1..Len(a) |-> Float32frombits(a[i])]
           fb == [i \in 1..Len(b) |-> Float32frombits(b[i])]
       IN IF Dot(fa, fa) = 0 \/ Dot(fb, fb) = 0 THEN ZeroScore
          ELSE [dot |-> Dot(fa, fb), na |-> Dot(fa, fa), nb |-> Dot(fb, fb)]

ScoreEqual(x, y) == x.dot * x.dot * y.na * y.nb = y.dot * y.dot * x.na * x.nb
ScoreGreater(x, y) == x.dot * x.dot * y.na * y.nb > y.dot * y.dot * x.na * x.nb

(***************************************************************************)
(* search.VectorSearch                                                     *)
(***************************************************************************)
\* filters: a field of the metadata, a field that is not in it, and two
\* fields in either order
FilterA1 == [Field |-> <<"a">>, Value |-> <<"1">>]
FilterId1 == [Field |-> <<"i", "d">>, Value |-> <<"1">>]
FilterT == [Field |-> <<"t">>, Value |-> <<"t">>]

SearchInputs ==
  {[dataset |-> <<>>, query |-> <<"t">>, topK |-> 0, filters |-> <<>>],
   [dataset |-> <<"A", " ">>, query |-> <<"a", "=", "1">>, topK |-> 1, filters |-> <<>>],
   [dataset |-> <<>>, query |-> <<"t">>, topK |-> 1, filters |-> <<>>],
   [dataset |-> <<>>, query |-> <<"t">>, topK |-> 0, filters |-> <<FilterA1, FilterId1>>],
   [dataset |-> <<>>, query |-> <<"t">>, topK |-> 0, filters |-> <<FilterId1, FilterA1>>],
   [dataset |-> <<>>, query |-> <<"t">>, topK |-> 0, filters |-> <<FilterT>>]}

DefaultTopK == 10

\* variant: the query is opened before the query text is encoded
QueryBeforeEncode == <<"s_query", "s_encode", "s_scan">>

\* the order of the calls of VectorSearch on the encoder and on the store
VectorSearchFlow == <<"s_encode", "s_query", "s_scan">>

\* the phase of VectorSearch that follows phase pc
FlowAfter(pc) ==
  LET i == CHOOSE j \in 1..Len(VectorSearchFlow) : VectorSearchFlow[j] = pc
  IN IF i < Len(VectorSearchFlow) THEN VectorSearchFlow[i + 1] ELSE "s_scan"

\* variant: the query has no WHERE clause
JoinRowsAllDatasets(S, dataset) ==
  {[rowid |-> p[1].rowid, id |-> p[1].id, data |-> p[1].data, lat |-> p[1].lat,
    lng |-> p[1].lng, embedding |-> p[2].embedding] :
     p \in {q \in S.records \X S.vec :
              q[1].dataset = q[2].dataset /\ q[1].id = q[2].id}}

\* the rows of the query: records joined with records_vec, of one dataset
JoinRows(S, dataset) ==
  {[rowid |-> p[1].rowid, id |-> p[1].id, data |-> p[1].data, lat |-> p[1].lat,
    lng |-> p[1].lng, embedding |-> p[2].embedding] :
     p \in {q \in S.records \X S.vec :
              /\ q[1].dataset = dataset
              /\ q[1].dataset = q[2].dataset /\ q[1].id = q[2].id}}

\* the Result built from one row of the query
ResultOf(j, dataset, qvec) ==
  [Dataset |-> dataset, ID |-> j.id, Fields |-> j.data,
   Score |-> Cosine(qvec, Deserialize(j.embedding).vec),
   Lat |-> j.lat, Lng |-> j.lng]

\* variant: the less function compares the scores only
ResultLessByScore(x, y) == ScoreGreater(x.Score, y.Score)

\* the less function of the sort: score descending, then id ascending
ResultLess(x, y) ==
  IF ScoreEqual(x.Score, y.Score) THEN StrLess(x.ID, y.ID)
  ELSE ScoreGreater(x.Score, y.Score)

\* sort.Slice with ResultLess: the results are put in order one after the
\* other, each before the first one it is less than
RECURSIVE Insert(_, _)
Insert(x, sorted) ==
  IF sorted = <<>> THEN <<x>>
  ELSE IF ResultLess(x, Head(sorted)) THEN <<x>> \o sorted
  ELSE <<Head(sorted)>> \o Insert(x, Tail(sorted))

RECURSIVE SortResults(_)
SortResults(results) ==
  IF results = <<>> THEN <<>>
  ELSE Insert(results[Len(results)], SortResults(SubSeq(results, 1, Len(results) - 1)))

\* variant: the results are cut to topK before they are sorted
RankedEarly(results, topK) ==
  SortResults(IF Len(results) > topK THEN SubSeq(results, 1, topK) ELSE results)

\* the sorted results cut to topK
Ranked(results, topK) ==
  LET sorted == SortResults(results)
  IN IF Len(sorted) > topK THEN SubSeq(sorted, 1, topK) ELSE sorted

\* variant: a filter on a field the metadata does not have is passed over
matchesPresentFilters(fields, filters) ==
  \A i \in 1..Len(filters) :
    filters[i].Field \in DOMAIN fields => fields[filters[i].Field] = filters[i].Value

\* a record passes when each filter names a field of its metadata whose value
\* is the filter's value
matchesFilters(fields, filters) ==
  \A i \in 1..Len(filters) :
    /\ filters[i].Field \in DOMAIN fields
    /\ fields[filters[i].Field] = filters[i].Value

\* VectorSearch is called: arguments checked, topK and dataset defaulted
StartSearch(in) ==
  /\ srch.pc \in {"idle", "s_done", "s_failed"}
  /\ in.query # <<>>
  /\ srch' = [IdleSearch EXCEPT
                !.pc = VectorSearchFlow[1],
                !.dataset = IF TrimSpace(in.dataset) = <<>> THEN DefaultDataset
                                                            ELSE TrimSpace(in.dataset),
                !.query = in.query,
                !.filters = in.filters,
                !.asked = in.topK,
                !.topK = IF in.topK <= 0 THEN DefaultTopK ELSE in.topK]
  /\ seen' = {committed}
  /\ UNCHANGED <<db, committed, conn, ing, input, obs, runs, prev, wrote>>
  /\ UNCHANGED <<mu, encodeMu, http, codec, call, entry, srv, svc>>

\* enc.Encode(query) takes the lock, runs the session and returns
SearchEncode ==
  /\ srch.pc = "s_encode"
  /\ muFree
  /\ srch' = [srch EXCEPT !.pc = FlowAfter("s_encode"), !.qvec = EncodeVec(srch.query)]
  /\ UNCHANGED <<db, committed, conn, ing, input, obs, runs, prev, wrote, seen>>
  /\ UNCHANGED <<mu, encodeMu, http, codec, call, entry, srv, svc>>

\* db.QueryContext: waits for the connection and opens the cursor
SearchQuery ==
  /\ srch.pc = "s_query"
  /\ connFree
  /\ conn' = conn \cup {"search"}
  /\ srch' = [srch EXCEPT !.pc = FlowAfter("s_query")]
  /\ UNCHANGED <<db, committed, ing, input, obs, runs, prev, wrote, seen>>
  /\ UNCHANGED <<mu, encodeMu, http, codec, call, entry, srv, svc>>

\* the rows the cursor has not delivered yet
Pending == {j \in JoinRows(db, srch.dataset) : j.rowid \notin srch.scanned}

\* rows.Next and rows.Scan: one more row, in the order the query plan gives,
\* is tested against the filters, decoded and scored
SearchScan ==
  /\ srch.pc = "s_scan"
  /\ "search" \in conn
  /\ \E j \in Pending :
       /\ Deserialize(j.embedding).ok
       /\ srch' = [srch EXCEPT
                     !.scanned = @ \cup {j.rowid},
                     !.results = IF matchesFilters(j.data, srch.filters)
                                   THEN Append(@, ResultOf(j, srch.dataset, srch.qvec))
                                   ELSE @]
  /\ UNCHANGED <<db, committed, conn, ing, input, obs, runs, prev, wrote, seen>>
  /\ UNCHANGED <<mu, encodeMu, http, codec, call, entry, srv, svc>>

\* rows.Next returns false: the cursor is closed, the results are sorted, cut
\* to topK and returned
SearchReturn ==
  /\ srch.pc = "s_scan"
  /\ "search" \in conn
  /\ Pending = {}
  /\ conn' = conn \ {"search"}
  /\ srch' = [srch EXCEPT !.pc = "s_done", !.scanned = {},
                          !.results = Ranked(srch.results, srch.topK)]
  /\ UNCHANGED <<db, committed, ing, input, obs, runs, prev, wrote, seen>>
  /\ UNCHANGED <<mu, encodeMu, http, codec, call, entry, srv, svc>>

\* the encoder or the store returns an error: VectorSearch returns it
SearchFails ==
  /\ srch.pc \in {"s_encode", "s_query", "s_scan"}
  /\ conn' = conn \ {"search"}
  /\ srch' = [IdleSearch EXCEPT !.pc = "s_failed"]
  /\ seen' = {}
  /\ UNCHANGED <<db, committed, ing, input, obs, runs, prev, wrote>>
  /\ UNCHANGED <<mu, encodeMu, http, codec, call, entry, srv, svc>>

Next ==
  \/ \E opts \in RunOptions, replay \in BOOLEAN : StartRun(opts, replay)
  \/ BeginTx
  \/ \E row \in Rows : ReadRow(row)
  \/ ReadEOF
  \/ EncodeLock
  \/ EncodeOk
  \/ UpsertPrimary
  \/ UpsertDerived
  \/ CommitBatch
  \/ CommitFinal
  \/ RunFails
  \/ Cancel

Spec == Init /\ [][Next]_vars

(***************************************************************************)
(* One call of Run at a time, with searches on the same sql.DB.            *)
(***************************************************************************)
ConcRuns == 1
MaxCallers == 2

\* the runs that go on beside searches name their columns and batch size
ConcOptions == {o \in RunOptions : o.Columns = ColsFull /\ o.BatchSize > 0}

\* and read rows with and without text
ConcRows == {RowText, RowNoText, RowGeo, RowTwo}

NextConc ==
  \/ \E opts \in ConcOptions : runs < ConcRuns /\ StartRun(opts, FALSE)
  \/ BeginTx
  \/ \E row \in ConcRows : ReadRow(row)
  \/ ReadEOF
  \/ EncodeLock
  \/ EncodeOk
  \/ UpsertPrimary
  \/ UpsertDerived
  \/ CommitBatch
  \/ CommitFinal
  \/ RunFails
  \/ Cancel
  \/ \E in \in SearchInputs : StartSearch(in)
  \/ SearchEncode
  \/ SearchQuery
  \/ SearchScan
  \/ SearchReturn
  \/ SearchFails

SpecConc == Init /\ [][NextConc]_vars

(***************************************************************************)
(* server.Server.handleSearch.  Each request runs VectorSearch between     *)
(* encodeMu.Lock and encodeMu.Unlock.                                      *)
(***************************************************************************)
\* Config as New completes it
ServerDataset == DefaultDataset
ServerTopK == 10

StatusOK == 200
StatusBadRequest == 400
StatusMethodNotAllowed == 405
StatusInternalServerError == 500
StatusGatewayTimeout == 504

\* the orders in which a cursor can deliver the rows R, or a range loop the
\* entries R of a map
ScanOrders(R) ==
  {p \in [1..Cardinality(R) -> R] : \A i, j \in 1..Cardinality(R) : p[i] = p[j] => i = j}

(***************************************************************************)
(* Server.decodeSearchRequest.  A request is its method, its parameters    *)
(* (those of the query string for GET, the members of the JSON object of   *)
(* the body otherwise, by name), the repeated parameter or array "filter", *)
(* the object "filters" as a set of entries, and whether the body is JSON. *)
(***************************************************************************)
Request(method, params, filter, filters, syntax) ==
  [method |-> method, params |-> params, filter |-> filter, filters |-> filters,
   syntax |-> syntax]

\* url.Values.Get, and a member of the payload: "" when absent
Param(req, k) == IF k \in DOMAIN req.params THEN req.params[k] ELSE <<>>

\* strings.SplitN(s, "=", 2): the position of the first "=", 0 when none
IndexEq(s) ==
  IF \E i \in 1..Len(s) : s[i] = "="
    THEN CHOOSE i \in 1..Len(s) : s[i] = "=" /\ \A j \in 1..(i - 1) : s[j] # "="
    ELSE 0

NoFilters == [ok |-> FALSE, filters |-> <<>>]

RECURSIVE parseFilterValues(_)
parseFilterValues(values) ==
  IF values = <<>> THEN [ok |-> TRUE, filters |-> <<>>]
  ELSE LET trimmed == TrimSpace(Head(values))
           eq == IndexEq(trimmed)
           field == TrimSpace(SubSeq(trimmed, 1, eq - 1))
           rest == parseFilterValues(Tail(values))
       IN IF trimmed = <<>> THEN rest
          ELSE IF eq = 0 \/ field = <<>> \/ ~rest.ok THEN NoFilters
          ELSE [ok |-> TRUE,
                filters |-> <<[Field |-> field,
                               Value |-> SubSeq(trimmed, eq + 1, Len(trimmed))]>>
                              \o rest.filters]

\* the members of the payload struct that Param reads
PayloadFields == {"query", "dataset", "topk"}

NoRequest == [Query |-> <<>>, Dataset |-> <<>>, TopK |-> 0, Filters |-> <<>>]

\* entries: the entries of the object "filters" in the order the range loop
\* delivers them
decodeSearchRequest(req, entries) ==
  IF req.method = "GET"
    THEN LET query == IF TrimSpace(Param(req, "q")) # <<>>
                        THEN TrimSpace(Param(req, "q"))
                        ELSE TrimSpace(Param(req, "query"))
             dataset == IF TrimSpace(Param(req, "dataset")) # <<>>
                          THEN TrimSpace(Param(req, "dataset"))
                          ELSE TrimSpace(Param(req, "table"))
             rawTopK == TrimSpace(Param(req, "topk"))
             parsed == parseFilterValues(req.filter)
         IN IF rawTopK # <<>> /\ ~IsNumeric(rawTopK) THEN [ok |-> FALSE, req |-> NoRequest]
            ELSE IF ~parsed.ok THEN [ok |-> FALSE, req |-> NoRequest]
            ELSE [ok |-> TRUE,
                  req |-> [Query |-> query, Dataset |-> dataset,
                           TopK |-> IF rawTopK = <<>> THEN 0 ELSE ParseNat(rawTopK),
                           Filters |-> parsed.filters]]
    ELSE LET extra == parseFilterValues(req.filter)
         IN IF \/ ~req.syntax
               \/ ~(DOMAIN req.params \subseteq PayloadFields)
               \/ ("topk" \in DOMAIN req.params /\ ~IsNumeric(req.params["topk"]))
              THEN [ok |-> FALSE, req |-> NoRequest]
            ELSE IF \E i \in 1..Len(entries) : TrimSpace(entries[i].key) = <<>>
              THEN [ok |-> FALSE, req |-> NoRequest]
            ELSE IF ~extra.ok THEN [ok |-> FALSE, req |-> NoRequest]
            ELSE [ok |-> TRUE,
                  req |-> [Query |-> TrimSpace(Param(req, "query")),
                           Dataset |-> TrimSpace(Param(req, "dataset")),
                           TopK |-> IF "topk" \in DOMAIN req.params
                                      THEN ParseNat(req.params["topk"]) ELSE 0,
                           Filters |-> [i \in 1..Len(entries) |->
                                          [Field |-> TrimSpace(entries[i].key),
                                           Value |-> entries[i].value]]
                                         \o extra.filters]]

\* requests as they arrive
HttpInputs ==
  {Request("GET", [k \in {"q"} |-> <<"t">>], <<>>, {}, TRUE),
   Request("POST", [k \in {"query"} |-> <<" ">>], <<>>, {}, TRUE),
   Request("POST", [k \in {"query"} |-> <<"t">>], <<>>, {}, FALSE),
   Request("PUT", [k \in {"q"} |-> <<"t">>], <<>>, {}, TRUE)}

\* the results of the row loop over the rows p: the rows that pass the filters
RECURSIVE Collect(_, _, _, _)
Collect(p, dataset, qvec, filters) ==
  IF p = <<>> THEN <<>>
  ELSE (IF matchesFilters(Head(p).data, filters)
          THEN <<ResultOf(Head(p), dataset, qvec)>> ELSE <<>>)
       \o Collect(Tail(p), dataset, qvec, filters)

\* variant: every failure of the retrieval is an internal error
statusOfInternal(err) ==
  IF err = "none" THEN StatusOK ELSE StatusInternalServerError

\* the status handleSearch answers an error of VectorSearch with
statusOf(err) ==
  IF err = "none" THEN StatusOK
  ELSE IF err = "deadline" THEN StatusGatewayTimeout
  ELSE StatusInternalServerError

\* the request arrives: method, decoding, query, dataset and topK defaults
HttpStart(r, in, entries) ==
  /\ http[r].pc = "idle"
  /\ http' = [http EXCEPT ![r] =
       LET decoded == decodeSearchRequest(in, entries)
           req == decoded.req
       IN IF in.method \notin {"GET", "POST"}
            THEN [IdleHttp EXCEPT !.pc = "h_done", !.status = StatusMethodNotAllowed]
          ELSE IF ~decoded.ok
            THEN [IdleHttp EXCEPT !.pc = "h_done", !.status = StatusBadRequest]
          ELSE IF TrimSpace(req.Query) = <<>>
            THEN [IdleHttp EXCEPT !.pc = "h_done", !.status = StatusBadRequest]
          ELSE [IdleHttp EXCEPT
                  !.pc = "h_lock",
                  !.query = req.Query,
                  !.dataset = IF req.Dataset = <<>> THEN ServerDataset ELSE req.Dataset,
                  !.filters = req.Filters,
                  !.topK = IF req.TopK <= 0 THEN ServerTopK ELSE req.TopK]]
  /\ UNCHANGED <<call, entry, srv, svc, codec, db, committed, conn, ing, input, obs, runs, prev, wrote, srch, seen,
                 mu, encodeMu>>

\* s.encodeMu.Lock, then VectorSearch is called and calls enc.Encode
HttpLock(r) ==
  /\ http[r].pc = "h_lock"
  /\ encodeMu = {}
  /\ encodeMu' = {Handler(r)}
  /\ http' = [http EXCEPT ![r].pc = "h_encode"]
  /\ UNCHANGED <<call, entry, srv, svc, codec, db, committed, conn, ing, input, obs, runs, prev, wrote, srch, seen, mu>>

\* enc.Encode, up to e.mu.Lock
HttpEncodeLock(r) ==
  /\ http[r].pc = "h_encode"
  /\ muFree
  /\ mu' = mu \cup {Handler(r)}
  /\ http' = [http EXCEPT ![r].pc = "h_encode_run"]
  /\ UNCHANGED <<call, entry, srv, svc, codec, db, committed, conn, ing, input, obs, runs, prev, wrote, srch, seen,
                 encodeMu>>

\* enc.Encode: the session has run, the lock is released, the vector returned
HttpEncodeOk(r) ==
  /\ http[r].pc = "h_encode_run"
  /\ mu' = muUnlock(mu, Handler(r))
  /\ http' = [http EXCEPT ![r].pc = "h_query", ![r].qvec = EncodeVec(http[r].query)]
  /\ UNCHANGED <<call, entry, srv, svc, codec, db, committed, conn, ing, input, obs, runs, prev, wrote, srch, seen,
                 encodeMu>>

\* db.QueryContext: waits for the connection and opens the cursor
HttpQuery(r) ==
  /\ http[r].pc = "h_query"
  /\ connFree
  /\ conn' = conn \cup {Handler(r)}
  /\ http' = [http EXCEPT ![r].pc = "h_scan"]
  /\ UNCHANGED <<call, entry, srv, svc, codec, db, committed, ing, input, obs, runs, prev, wrote, srch, seen,
                 mu, encodeMu>>

\* the results as the row loop can leave them: the rows that pass the filters,
\* in the order the cursor delivered them
Scans(r) ==
  {Collect(p, http[r].dataset, http[r].qvec, http[r].filters) :
     p \in ScanOrders(JoinRows(db, http[r].dataset))}

\* the row loop to its end, rows.Close, sort, truncation: VectorSearch returns.
\* The request holds the only connection, so the store does not change
\* under the loop.
HttpScan(r) ==
  /\ http[r].pc = "h_scan"
  /\ Handler(r) \in conn
  /\ \A j \in JoinRows(db, http[r].dataset) : Deserialize(j.embedding).ok
  /\ \E collected \in Scans(r) :
       http' = [http EXCEPT ![r].pc = "h_unlock",
                            ![r].results = Ranked(collected, http[r].topK)]
  /\ conn' = conn \ {Handler(r)}
  /\ UNCHANGED <<call, entry, srv, svc, codec, db, committed, ing, input, obs, runs, prev, wrote, srch, seen,
                 mu, encodeMu>>

\* VectorSearch returns an error: from the encoder, or from the store, which
\* also reports that the deadline of the request has passed
HttpFails(r, err) ==
  /\ http[r].pc \in {"h_encode", "h_encode_run", "h_query", "h_scan"}
  /\ (err = "deadline") => (http[r].pc \in {"h_query", "h_scan"})
  /\ mu' = IF http[r].pc = "h_encode_run" THEN muUnlock(mu, Handler(r)) ELSE mu
  /\ conn' = conn \ {Handler(r)}
  /\ http' = [http EXCEPT ![r] = [IdleHttp EXCEPT !.pc = "h_unlock", !.err = err]]
  /\ UNCHANGED <<call, entry, srv, svc, codec, db, committed, ing, input, obs, runs, prev, wrote, srch, seen, encodeMu>>

\* s.encodeMu.Unlock, then the response is written and the handler returns:
\* of the request the status of its response is kept
HttpRespond(r) ==
  /\ http[r].pc = "h_unlock"
  /\ encodeMu' = encodeMu \ {Handler(r)}
  /\ http' = [http EXCEPT ![r] = [IdleHttp EXCEPT !.pc = "h_done",
                                                  !.status = statusOf(http[r].err)]]
  /\ UNCHANGED <<call, entry, srv, svc, codec, db, committed, conn, ing, input, obs, runs, prev, wrote, srch, seen, mu>>

(***************************************************************************)
(* One call of Run at a time beside the requests of a server, all on the   *)
(* same sql.DB and the same Encoder.                                       *)
(***************************************************************************)
ServeOptions == {o \in ConcOptions : o.Dataset = <<>> /\ o.BatchSize = 1}
ServeRows == {RowText, RowTwo}

NextServe ==
  \/ \E opts \in ServeOptions : runs < ConcRuns /\ StartRun(opts, FALSE)
  \/ BeginTx
  \/ \E row \in ServeRows : ReadRow(row)
  \/ ReadEOF
  \/ EncodeLock
  \/ EncodeOk
  \/ UpsertPrimary
  \/ UpsertDerived
  \/ CommitBatch
  \/ CommitFinal
  \/ RunFails
  \/ Cancel
  \/ \E r \in Requests, in \in HttpInputs :
       \E entries \in ScanOrders(in.filters) : HttpStart(r, in, entries)
  \/ \E r \in Requests : HttpLock(r)
  \/ \E r \in Requests : HttpEncodeLock(r)
  \/ \E r \in Requests : HttpEncodeOk(r)
  \/ \E r \in Requests : HttpQuery(r)
  \/ \E r \in Requests : HttpScan(r)
  \/ \E r \in Requests, err \in {"deadline", "other"} : HttpFails(r, err)
  \/ \E r \in Requests : HttpRespond(r)

SpecServe == Init /\ [][NextServe]_vars

\* the scheduler runs every process that can take a step, the encoder and the
\* store return, the input has an end that the reader reaches; no failure is
\* bound to happen
FairServe ==
  /\ WF_vars(BeginTx)
  /\ WF_vars(ReadEOF)
  /\ WF_vars(EncodeLock)
  /\ WF_vars(EncodeOk)
  /\ WF_vars(UpsertPrimary)
  /\ WF_vars(UpsertDerived)
  /\ WF_vars(CommitBatch)
  /\ WF_vars(CommitFinal)
  /\ \A r \in Requests :
       /\ WF_vars(HttpLock(r))
       /\ WF_vars(HttpEncodeLock(r))
       /\ WF_vars(HttpEncodeOk(r))
       /\ WF_vars(HttpQuery(r))
       /\ WF_vars(HttpScan(r))
       /\ WF_vars(HttpRespond(r))

SpecServeFair == SpecServe /\ FairServe

(***************************************************************************)
(* Reading a store.                                                        *)
(***************************************************************************)
HasRecord(S, dataset, id) == \E r \in S.records : r.dataset = dataset /\ r.id = id
HasVec(S, dataset, id) == \E v \in S.vec : v.dataset = dataset /\ v.id = id
HasFts(S, rowid) == \E f \in S.fts : f.rowid = rowid
HasRtree(S, rowid) == \E g \in S.rtree : g.rowid = rowid

\* what the last row that wrote (dataset, id) contained
WroteOf(W, dataset, id) == CHOOSE w \in W : w.dataset = dataset /\ w.id = id

\* the step delivers a data row to Run
RowRead == ing.pc = "read" /\ Len(input') = Len(input) + 1

\* the record and fingerprint of the row delivered by the step
ReadRecord == buildRecord(input'[Len(input')], ing.idx).rec
ReadHash == hashRecord(ing.dataset, ReadRecord)

\* the fingerprint stored for the row delivered by the step equals its own
SameAsStored ==
  \E r \in db.records :
    r.dataset = ing.dataset /\ r.id = ReadRecord.ID /\ r.hash = ReadHash

\* S and T agree on every entry that does not belong to (dataset, id)
OnlyKeyChanged(S, T, dataset, id) ==
  LET other(X) == {x \in X : ~(x.dataset = dataset /\ x.id = id)}
      rowids == {r.rowid : r \in {x \in S.records \cup T.records :
                                     x.dataset = dataset /\ x.id = id}}
      otherGeo(X) == {g \in X : g.rowid \notin rowids}
  IN /\ other(S.records) = other(T.records)
     /\ other(S.vec) = other(T.vec)
     /\ other(S.fts) = other(T.fts)
     /\ otherGeo(S.rtree) = otherGeo(T.rtree)

(***************************************************************************)
(* C1.  A row whose fingerprint equals the one stored for its (namespace,  *)
(* id) causes no encoder call and no write.  The encoder is called once    *)
(* for a row whose fingerprint differs from the stored one and whose text  *)
(* is not empty, and for no other row, and a write of Run changes only the *)
(* entries of the row it is applying.                                      *)
(***************************************************************************)
C1_Step ==
  /\ (RowRead /\ SameAsStored)
       => (db' = db /\ obs'.encCalls = obs.encCalls /\ ing'.pc = "read")
  /\ (obs'.encCalls > obs.encCalls)
       => /\ RowRead
          /\ ~SameAsStored
          /\ embeddingText(ReadRecord) # <<>>
          /\ obs'.encCalls = obs.encCalls + 1
  /\ (RowRead /\ ~SameAsStored /\ embeddingText(ReadRecord) # <<>>)
       => (obs'.encCalls = obs.encCalls + 1)
  /\ (db' # db /\ ing'.pc # "idle")
       => /\ ing.pc \in {"upsert_records", "upsert_derived"}
          /\ OnlyKeyChanged(db, db', ing.dataset, ing.rec.ID)

C1_SkipRule == [][C1_Step]_vars

\* a second run in which the first row was unchanged and skipped, and the
\* other row was encoded and applied
C1_Witness ==
  /\ runs = 2
  /\ ing.pc = "read"
  /\ Len(input) = 2
  /\ obs.encCalls = 1
  /\ obs.txRows = 1
  /\ \E r \in committed.records :
       /\ r.dataset = ing.dataset
       /\ r.id = buildRecord(input[1], ing.idx).rec.ID
       /\ r.hash = hashRecord(ing.dataset, buildRecord(input[1], ing.idx).rec)

(***************************************************************************)
(* C2.  Idempotence.  As claimed: a run that repeats the previous          *)
(* successful run (same input, same options) calls the encoder zero times  *)
(* and leaves the committed store as the first run left it.                *)
(***************************************************************************)
C2_Original ==
  ing.replay => (obs.encCalls = 0 /\ committed = prev.state)

\* rows of the input that share an id have the same fingerprint
FingerprintsAgree(p) ==
  LET idx == resolveColumns(Header, p.opts.Columns).idx
      rec(i) == buildRecord(p.input[i], idx).rec
  IN \A i, j \in 1..Len(p.input) :
       rec(i).ID = rec(j).ID =>
         hashRecord(datasetOf(p.opts), rec(i)) = hashRecord(datasetOf(p.opts), rec(j))

(***************************************************************************)
(* C2 as amended: when the rows of the input that share an id have the     *)
(* same fingerprint (in particular when the ids are distinct), the         *)
(* repeated run calls the encoder zero times, writes nothing and leaves    *)
(* the committed store as the first run left it.                           *)
(***************************************************************************)
C2_Idempotent ==
  (ing.replay /\ FingerprintsAgree(prev))
    => (obs.encCalls = 0 /\ db = prev.state /\ committed = prev.state)

\* a repeated run of a two-row input has completed
C2_Witness ==
  /\ ing.pc = "idle"
  /\ ing.replay
  /\ ing.result = "ok"
  /\ Len(prev.input) = 2
  /\ FingerprintsAgree(prev)
  /\ prev.state # EmptyStore

(***************************************************************************)
(* C3.  When Run has stopped with an error or by cancellation, the store   *)
(* is exactly the store as of the last commit of that run (or as of its    *)
(* start when it never committed): nothing written after it is visible.    *)
(***************************************************************************)
C3_AbortKeepsCommitted ==
  (ing.pc = "idle" /\ ing.result \in {"error", "cancelled"})
    => (db = obs.lastCommit /\ committed = obs.lastCommit)

\* a first run has committed a batch and then failed
C3_Witness ==
  /\ runs = 1
  /\ ing.pc = "idle"
  /\ ing.result = "error"
  /\ obs.lastCommit # EmptyStore

(***************************************************************************)
(* C4.  A record has a vector entry iff the text of the last row that      *)
(* wrote it was not empty, and a lexical entry under the same condition;   *)
(* the primary record exists either way.  This holds of the committed      *)
(* store, and of the open transaction whenever a row is fully applied.     *)
(***************************************************************************)
DerivedMatchText(S, W) ==
  /\ \A w \in W : HasRecord(S, w.dataset, w.id)
  /\ \A r \in S.records :
       LET w == WroteOf(W, r.dataset, r.id)
       IN /\ HasVec(S, r.dataset, r.id) <=> (w.text # <<>>)
          /\ HasFts(S, r.rowid) <=> (w.text # <<>>)

C4_VectorIffText ==
  /\ DerivedMatchText(committed, wrote.durable)
  /\ (ing.pc # "upsert_derived") => DerivedMatchText(db, wrote.live)

\* a row with empty text was applied to a record that has a committed vector
\* entry and lexical entry: both are gone in the transaction, the record stays
C4_Witness ==
  /\ ing.pc = "read"
  /\ \E r \in db.records :
       /\ WroteOf(wrote.live, r.dataset, r.id).text = <<>>
       /\ HasVec(committed, r.dataset, r.id) /\ ~HasVec(db, r.dataset, r.id)
       /\ HasFts(committed, r.rowid) /\ ~HasFts(db, r.rowid)

(***************************************************************************)
(* C5.  A record has a spatial entry iff the last row that wrote it had    *)
(* both coordinates, the entry is the rectangle minLat = maxLat = lat,     *)
(* minLng = maxLng = lng, and a record written without a coordinate keeps  *)
(* its primary record and, when it has text, its embedding.                *)
(***************************************************************************)
SpatialMatchCoords(S, W) ==
  \A r \in S.records :
    LET w == WroteOf(W, r.dataset, r.id)
    IN /\ HasRtree(S, r.rowid) <=> (w.lat # Nil /\ w.lng # Nil)
       /\ \A g \in S.rtree :
            g.rowid = r.rowid =>
              /\ g.min_lat = w.lat[1] /\ g.max_lat = w.lat[1]
              /\ g.min_lng = w.lng[1] /\ g.max_lng = w.lng[1]
       /\ (w.lat = Nil \/ w.lng = Nil) =>
            (w.text # <<>> => HasVec(S, r.dataset, r.id))

C5_SpatialIffCoords ==
  /\ \A w \in wrote.durable : HasRecord(committed, w.dataset, w.id)
  /\ SpatialMatchCoords(committed, wrote.durable)
  /\ (ing.pc # "upsert_derived") =>
       /\ \A w \in wrote.live : HasRecord(db, w.dataset, w.id)
       /\ SpatialMatchCoords(db, wrote.live)

\* a row with latitude but blank longitude was applied to a record that has a
\* committed spatial entry: the entry is gone, record and embedding are there
C5_Witness ==
  /\ ing.pc = "read"
  /\ \E r \in db.records :
       /\ WroteOf(wrote.live, r.dataset, r.id).lat # Nil
       /\ WroteOf(wrote.live, r.dataset, r.id).lng = Nil
       /\ HasRtree(committed, r.rowid) /\ ~HasRtree(db, r.rowid)
       /\ HasVec(db, r.dataset, r.id)

(***************************************************************************)
(* C6.  In every store state there is one primary record per (namespace,   *)
(* id), at most one vector, lexical and spatial entry per record, and      *)
(* every such entry belongs to a primary record; the statement that        *)
(* re-ingests an existing id leaves one record with that key, at its old   *)
(* rowid, carrying the new metadata, coordinates and fingerprint.          *)
(***************************************************************************)
WellKeyed(S) ==
  /\ \A r1, r2 \in S.records :
       ((r1.dataset = r2.dataset /\ r1.id = r2.id) \/ r1.rowid = r2.rowid) => r1 = r2
  /\ \A v1, v2 \in S.vec : (v1.dataset = v2.dataset /\ v1.id = v2.id) => v1 = v2
  /\ \A f1, f2 \in S.fts : f1.rowid = f2.rowid => f1 = f2
  /\ \A g1, g2 \in S.rtree : g1.rowid = g2.rowid => g1 = g2
  /\ \A v \in S.vec : HasRecord(S, v.dataset, v.id)
  /\ \A f \in S.fts :
       \E r \in S.records : r.rowid = f.rowid /\ r.dataset = f.dataset /\ r.id = f.id
  /\ \A g \in S.rtree : \E r \in S.records : r.rowid = g.rowid

C6_UniqueKeys ==
  /\ WellKeyed(db)
  /\ WellKeyed(committed)
  /\ (ing.pc = "upsert_derived") =>
       LET mine == {r \in db.records : r.dataset = ing.dataset /\ r.id = ing.rec.ID}
       IN /\ Cardinality(mine) = 1
          /\ \A r \in mine :
               /\ r.data = ing.rec.Metadata /\ r.hash = ing.hash
               /\ r.lat = ing.rec.Lat /\ r.lng = ing.rec.Lng
               /\ r.rowid = ing.rowid
               /\ \A c \in committed.records :
                    (c.dataset = r.dataset /\ c.id = r.id) => c.rowid = r.rowid

\* the primary record of an id that is committed with another fingerprint has
\* just been overwritten
C6_Witness ==
  /\ ing.pc = "upsert_derived"
  /\ \E c \in committed.records :
       c.dataset = ing.dataset /\ c.id = ing.rec.ID /\ c.hash # ing.hash

(***************************************************************************)
(* C7.  With B the configured batch size, or 1000 when that is zero or     *)
(* negative: Run is about to commit a batch exactly when the rows applied  *)
(* since the last commit number B, so the open transaction never holds     *)
(* more than B rows, the commits so far number rowsProcessed / B, and the  *)
(* commit at end of input makes every remaining write durable.             *)
(***************************************************************************)
C7_Batch == IF ing.opts.BatchSize <= 0 THEN 1000 ELSE ing.opts.BatchSize

C7_Inv ==
  (ing.pc # "idle") =>
    /\ obs.txRows <= C7_Batch
    /\ (ing.pc = "commit") <=> (obs.txRows = C7_Batch)
    /\ ing.rowsProcessed = obs.commits * C7_Batch + obs.txRows

C7_Step ==
  /\ (committed' # committed) => (ing.pc \in {"commit", "final"} /\ committed' = db)
  /\ (ing.pc = "final" /\ ing'.result = "ok") => (committed' = db /\ db' = db)
  /\ (ing.pc = "commit" /\ ing'.pc # "idle") => (ing'.pc = "begin" /\ committed' = db)

C7_BatchCommit == []C7_Inv /\ [][C7_Step]_vars

\* a batch of two rows is complete and about to be committed
C7_Witness ==
  /\ ing.pc = "commit"
  /\ ing.opts.BatchSize = 2
  /\ obs.txRows = 2

(***************************************************************************)
(* C8.  As claimed: fingerprint equality implies content equality, so a    *)
(* row that Run skips has the joined text, the metadata and the            *)
(* coordinates of the stored record.                                       *)
(***************************************************************************)
C8_Step ==
  (RowRead /\ buildRecord(input'[Len(input')], ing.idx).ok /\ SameAsStored) =>
    \A r \in db.records :
      (r.dataset = ing.dataset /\ r.id = ReadRecord.ID) =>
        /\ r.data = ReadRecord.Metadata
        /\ r.lat = ReadRecord.Lat
        /\ r.lng = ReadRecord.Lng
        /\ WroteOf(wrote.live, r.dataset, r.id).text = embeddingText(ReadRecord)

C8_FingerprintInjective == [][C8_Step]_vars

(***************************************************************************)
(* C9.  The result a search returns is the result of the search on the     *)
(* store as it was committed when the search was called or as one of the   *)
(* commits since then left it: never on a store with uncommitted writes.   *)
(***************************************************************************)
RECURSIVE SeqOf(_)
SeqOf(R) == IF R = {} THEN <<>> ELSE LET x == CHOOSE y \in R : TRUE
                                     IN <<x>> \o SeqOf(R \ {x})

SearchOn(S, dataset, qvec, topK, filters) ==
  Ranked(SeqOf({ResultOf(j, dataset, qvec) :
                  j \in {k \in JoinRows(S, dataset) : matchesFilters(k.data, filters)}}),
         topK)

C9_SearchSeesCommits ==
  (srch.pc = "s_done") =>
    \E S \in seen :
      srch.results = SearchOn(S, srch.dataset, srch.qvec, srch.topK, srch.filters)

\* a search has returned records of a committed batch while the run holds an
\* open transaction with uncommitted writes
C9_Witness ==
  /\ srch.pc = "s_done"
  /\ srch.results # <<>>
  /\ "ingest" \in conn
  /\ db # committed

(***************************************************************************)
(* C10.  As claimed: a process inside Encoder.Encode holds no connection   *)
(* of the store, neither an open transaction nor an open cursor.           *)
(***************************************************************************)
C10_Original ==
  /\ (ing.pc \in {"encode", "encode_run"}) => ("ingest" \notin conn)
  /\ (srch.pc = "s_encode") => ("search" \notin conn)

(***************************************************************************)
(* C10 as amended: a search inside Encoder.Encode holds no connection of   *)
(* the store; Run calls Encoder.Encode inside its open transaction, so it  *)
(* holds the connection during the call.                                   *)
(***************************************************************************)
C10_EncodeOutsideCursor ==
  /\ (srch.pc = "s_encode") => ("search" \notin conn)
  /\ (ing.pc \in {"encode", "encode_run"}) => (conn = {"ingest"})

\* Run and a search are inside Encoder.Encode at the same time
C10_Witness ==
  /\ srch.pc = "s_encode"
  /\ ing.pc = "encode"

(***************************************************************************)
(* Reading a search.                                                       *)
(***************************************************************************)
\* the records of namespace N in S that have a stored embedding
Embedded(S, N) == {r \in S.records : r.dataset = N /\ HasVec(S, N, r.id)}

\* the stored record a result stands for passes every filter of the search
Passes(r, filters) ==
  \A i \in 1..Len(filters) :
    /\ filters[i].Field \in DOMAIN r.data
    /\ r.data[filters[i].Field] = filters[i].Value

\* the candidates of the search on S, scored
Scored(S) ==
  {[Dataset |-> srch.dataset, ID |-> r.id, Fields |-> r.data,
    Score |-> Cosine(srch.qvec,
                     Deserialize((CHOOSE v \in S.vec :
                                    v.dataset = r.dataset /\ v.id = r.id).embedding).vec),
    Lat |-> r.lat, Lng |-> r.lng] :
     r \in {e \in Embedded(S, srch.dataset) : Passes(e, srch.filters)}}

\* x ranks before y: higher similarity, or the same similarity and lower id
RanksBefore(x, y) ==
  \/ ScoreGreater(x.Score, y.Score)
  \/ (ScoreEqual(x.Score, y.Score) /\ StrLess(x.ID, y.ID))

Min(a, b) == IF a < b THEN a ELSE b

(***************************************************************************)
(* C13.  VectorSearch returns the first min(K, n) of the n candidates in   *)
(* the order of similarity descending, ties by id ascending, K being 10    *)
(* when the argument is not positive: the results are candidates, each     *)
(* ranks before the next, and every candidate left out ranks after every   *)
(* returned one.                                                           *)
(***************************************************************************)
C13_K == IF srch.asked <= 0 THEN 10 ELSE srch.asked

C13_RankedPrefix ==
  (srch.pc = "s_done") =>
    \E S \in seen :
      LET C == Scored(S)
          R == srch.results
      IN /\ Len(R) = Min(C13_K, Cardinality(C))
         /\ \A i \in 1..Len(R) : R[i] \in C
         /\ \A i, j \in 1..Len(R) : i < j => RanksBefore(R[i], R[j])
         /\ \A c \in C :
              (\A i \in 1..Len(R) : R[i] # c) => \A i \in 1..Len(R) : RanksBefore(R[i], c)

\* a search with K = 1 has returned the lower id of two candidates with the
\* same similarity
C13_Witness ==
  /\ srch.pc = "s_done"
  /\ srch.asked = 1
  /\ Len(srch.results) = 1
  /\ \E c \in Scored(committed) :
       /\ c # srch.results[1]
       /\ ScoreEqual(c.Score, srch.results[1].Score)
       /\ StrLess(srch.results[1].ID, c.ID)

(***************************************************************************)
(* C14.  The rows a search on namespace N scans are exactly the records of *)
(* N with a stored embedding; every result is such a record, returned      *)
(* under namespace N; with no candidate the search can return, and what it *)
(* returns is the empty result.                                            *)
(***************************************************************************)
C14_Inv ==
  /\ (srch.pc = "s_done") =>
       \E S \in seen :
         /\ \A i \in 1..Len(srch.results) :
              /\ srch.results[i].Dataset = srch.dataset
              /\ \E r \in Embedded(S, srch.dataset) : r.id = srch.results[i].ID
         /\ (Embedded(S, srch.dataset) = {}) => srch.results = <<>>
  /\ (srch.pc = "s_scan" /\ "search" \in conn /\ Embedded(db, srch.dataset) = {})
       => ENABLED SearchReturn

C14_Step ==
  (srch.pc = "s_scan" /\ srch'.pc = "s_done") =>
    /\ srch.scanned = {r.rowid : r \in Embedded(db, srch.dataset)}
    /\ Len(srch.results) = Cardinality({r \in Embedded(db, srch.dataset) :
                                          Passes(r, srch.filters)})

C14_Candidates == []C14_Inv /\ [][C14_Step]_vars

\* a search without filters has returned the one record with an embedding of
\* a namespace that also holds a record without one
C14_Witness ==
  /\ srch.pc = "s_done"
  /\ srch.filters = <<>>
  /\ Len(srch.results) = 1
  /\ \E r \in committed.records :
       /\ r.dataset = srch.dataset
       /\ ~HasVec(committed, r.dataset, r.id)
       /\ r.id # srch.results[1].ID

(***************************************************************************)
(* C15.  Every record a search with filters returns passes every filter:   *)
(* its stored metadata has each filtered field with exactly the filter's   *)
(* value.                                                                  *)
(***************************************************************************)
C15_FiltersHold ==
  (srch.pc = "s_done") =>
    \E S \in seen :
      \A i \in 1..Len(srch.results) :
        /\ \E r \in S.records :
             /\ r.dataset = srch.results[i].Dataset /\ r.id = srch.results[i].ID
             /\ Passes(r, srch.filters)
        /\ \A k \in 1..Len(srch.filters) :
             /\ srch.filters[k].Field \in DOMAIN srch.results[i].Fields
             /\ srch.results[i].Fields[srch.filters[k].Field] = srch.filters[k].Value

\* a search with two filters has returned one candidate and left out another
C15_Witness ==
  /\ srch.pc = "s_done"
  /\ Len(srch.filters) = 2
  /\ Len(srch.results) = 1
  /\ Cardinality(Embedded(committed, srch.dataset)) = 2

(***************************************************************************)
(* C16.  Retrieval is deterministic: the sequence a search returns, scores *)
(* included, is the one every order of scanning the candidates and every   *)
(* order of the filters gives on the same store with the same query vector *)
(* and K.                                                                  *)
(***************************************************************************)
Orders(R) == {p \in [1..Cardinality(R) -> R] : \A i, j \in DOMAIN p : p[i] = p[j] => i = j}

C16_Deterministic ==
  (srch.pc = "s_done") =>
    \E S \in seen :
      \A fs \in Orders({srch.filters[i] : i \in 1..Len(srch.filters)}) :
        \A p \in Orders({ResultOf(j, srch.dataset, srch.qvec) :
                          j \in {k \in JoinRows(S, srch.dataset) :
                                   matchesFilters(k.data, fs)}}) :
          srch.results = Ranked(p, srch.topK)

\* a search has returned two records of the same similarity
C16_Witness ==
  /\ srch.pc = "s_done"
  /\ Len(srch.results) = 2
  /\ ScoreEqual(srch.results[1].Score, srch.results[2].Score)

(***************************************************************************)
(* The locks of a server with an ingestion beside it.                      *)
(***************************************************************************)
\* the processes whose encoder session is running
InSession ==
  (IF ing.pc = "encode_run" THEN {"ingest"} ELSE {})
    \cup {Handler(r) : r \in {q \in Requests : http[q].pc = "h_encode_run"}}

\* C11: whatever the interleaving of the requests of a server and of an
\* ingestion on the same Encoder, at most one of them is inside the session
\* run at any time.
C11_OneInference == Cardinality(InSession) <= 1

\* the ingestion runs the session while one request waits for the lock of the
\* encoder and another for the lock of the server
C11_Witness ==
  /\ ing.pc = "encode_run"
  /\ \E r, q \in Requests : http[r].pc = "h_encode" /\ http[q].pc = "h_lock"

\* the processes that have work left, and those of them that wait for a lock
\* or for the connection somebody else holds
Active ==
  (IF ing.pc # "idle" THEN {"ingest"} ELSE {})
    \cup {Handler(r) : r \in {q \in Requests : http[q].pc \notin {"idle", "h_done"}}}

Waiting ==
  (IF \/ ing.pc = "begin" /\ ~connFree
      \/ ing.pc = "encode" /\ ~muFree
     THEN {"ingest"} ELSE {})
    \cup {Handler(r) : r \in {q \in Requests :
            \/ http[q].pc = "h_lock" /\ encodeMu # {}
            \/ http[q].pc = "h_encode" /\ ~muFree
            \/ http[q].pc = "h_query" /\ ~connFree}}

C12_NoAllWait == Active # {} => Waiting # Active

\* C12: a server with an ingestion beside it never reaches a state in which
\* every process that has work left waits for the connection, the lock of the
\* encoder or the lock of the server; under fair scheduling every request
\* that has arrived is answered and every run that has started ends.
C12_NoDeadlock ==
  /\ []C12_NoAllWait
  /\ \A r \in Requests : (http[r].pc # "idle") ~> (http[r].pc = "h_done")
  /\ (ing.pc # "idle") ~> (ing.pc = "idle")

\* the ingestion holds the connection and waits for the lock of the encoder,
\* which a request holds, while the other request waits for the lock of the
\* server
C12_Witness ==
  /\ ing.pc = "encode" /\ "ingest" \in conn
  /\ \E r, q \in Requests :
       /\ http[r].pc = "h_encode_run" /\ Handler(r) \in mu /\ Handler(r) \in encodeMu
       /\ http[q].pc = "h_lock"

(***************************************************************************)
(* The vector codec on its own: Serialize on a vector and Deserialize on   *)
(* what it returned, Deserialize on bytes of any length.                   *)
(***************************************************************************)
InitCodec ==
  /\ db = EmptyStore
  /\ committed = EmptyStore
  /\ conn = {}
  /\ ing = IdleRun
  /\ input = <<>>
  /\ obs = NoObs
  /\ runs = 0
  /\ prev = NoPrev
  /\ wrote = [live |-> {}, durable |-> {}]
  /\ srch = IdleSearch
  /\ seen = {}
  /\ mu = {}
  /\ encodeMu = {}
  /\ http = [r \in Requests |-> IdleHttp]
  /\ codec \in CodecArgs
  /\ call = IdleCall
  /\ entry = IdleEntry
  /\ srv = IdleSrv
  /\ svc = IdleSvc

\* vector.Serialize(vec)
CallSerialize ==
  /\ codec.pc = "vec"
  /\ codec' = [codec EXCEPT !.pc = "serialized", !.data = Serialize(codec.vec)]
  /\ UNCHANGED <<db, committed, conn, ing, input, obs, runs, prev, wrote, srch, seen,
                 mu, encodeMu, http, call, entry, srv, svc>>

\* vector.Deserialize(data), on the bytes Serialize returned or on other bytes
CallDeserialize ==
  /\ codec.pc \in {"serialized", "blob"}
  /\ codec' = [codec EXCEPT
                 !.pc = IF codec.pc = "serialized" THEN "roundtrip" ELSE "decoded",
                 !.ok = Deserialize(codec.data).ok,
                 !.out = Deserialize(codec.data).vec]
  /\ UNCHANGED <<db, committed, conn, ing, input, obs, runs, prev, wrote, srch, seen,
                 mu, encodeMu, http, call, entry, srv, svc>>

NextCodec ==
  \/ CallSerialize
  \/ CallDeserialize

SpecCodec == InitCodec /\ [][NextCodec]_vars

\* byte k (from 0) of the element bits, least significant byte first
ByteOf(bits, k) ==
  ((IF k < 2 THEN bits.lo ELSE bits.hi) \div (IF k % 2 = 0 THEN 1 ELSE 256)) % 256

\* C17: Serialize(v) has 4 * len(v) bytes and nothing else, the bytes of
\* element i at 4i .. 4i+3, least significant first; Deserialize of these
\* bytes succeeds and returns v element for element, the empty v included;
\* Deserialize of bytes whose number is not a multiple of 4 is an error.
C17_RoundTrip ==
  /\ codec.pc \in {"serialized", "roundtrip"} =>
       /\ Len(codec.data) = 4 * Len(codec.vec)
       /\ \A i \in 1..Len(codec.vec) : \A k \in 0..3 :
            codec.data[4 * (i - 1) + k + 1] = ByteOf(codec.vec[i], k)
  /\ codec.pc = "roundtrip" => codec.ok /\ codec.out = codec.vec
  /\ (codec.pc = "decoded" /\ Len(codec.data) % 4 # 0) => ~codec.ok

\* a vector of two elements with different bytes has gone through both
\* functions (and the empty vector, and bytes that are no vector, are among
\* the arguments)
C17_Witness ==
  /\ codec.pc = "roundtrip"
  /\ codec.vec = <<U32(258, 772), U32(49024, 0)>>
  /\ codec.data = <<4, 3, 2, 1, 0, 0, 128, 191>>

C17_WitnessEmpty == codec.pc = "roundtrip" /\ codec.vec = <<>> /\ codec.ok

C17_WitnessBadLength == codec.pc = "decoded" /\ Len(codec.data) = 5 /\ ~codec.ok

(***************************************************************************)
(* A call of Run whose id column cannot be used.                           *)
(***************************************************************************)
\* the id column of the options is blank, or no column of the header has its
\* name
IdUnusable(opts) ==
  \/ TrimSpace(opts.Columns.ID) = <<>>
  \/ \A i \in 1..Len(Header) :
       ToLower(TrimSpace(Header[i])) # ToLower(TrimSpace(opts.Columns.ID))

C20_Step ==
  \A opts \in RunOptions :
    (IdUnusable(opts) /\ (StartRun(opts, FALSE) \/ StartRun(opts, TRUE))) =>
      /\ ing'.pc = "idle" /\ ing'.result = "config_error"
      /\ conn' = conn
      /\ mu' = mu /\ obs'.encCalls = 0
      /\ db' = db /\ committed' = committed

\* C20: a call of Run whose id column is blank or is not a column of the
\* header returns an error at once: no transaction is opened, the encoder is
\* not called, the store is as it was.
C20_ConfigErrorFirst == [][C20_Step]_vars

\* Run has returned the error on a store that holds records
C20_Witness ==
  /\ ing.pc = "idle" /\ ing.result = "config_error"
  /\ committed.records # {}

(***************************************************************************)
(* What a run leaves alone.                                                *)
(***************************************************************************)
Keys(S) == {<<r.dataset, r.id>> : r \in S.records}

\* what the store S holds for the record r: the record with its fingerprint,
\* and its derived entries
EntriesOf(S, r) ==
  [records |-> {q \in S.records : q.dataset = r.dataset /\ q.id = r.id},
   vec     |-> {v \in S.vec : v.dataset = r.dataset /\ v.id = r.id},
   fts     |-> {f \in S.fts : f.rowid = r.rowid},
   rtree   |-> {g \in S.rtree : g.rowid = r.rowid}]

\* the ids of the rows the run has read
InputIds ==
  IF ing.pc = "idle" THEN {}
  ELSE {buildRecord(input[i], ing.idx).rec.ID : i \in 1..Len(input)}

C18_Step ==
  /\ Keys(committed) \subseteq Keys(committed')
  /\ \A r \in committed.records :
       (r.dataset # ing.dataset \/ r.id \notin InputIds) =>
         EntriesOf(committed', r) = EntriesOf(committed, r)

\* C18: no step of a run, be it one that ends in success, in an error or in
\* cancellation, takes a key out of the committed records, and a committed
\* record whose id is not among the rows the run has read keeps its record,
\* its fingerprint and its derived entries.
C18_NeverDeletes == [][C18_Step]_vars

\* the ids of the rows of the last run that ended in success
PrevIds ==
  {buildRecord(prev.input[i], resolveColumns(Header, prev.opts.Columns).idx).rec.ID :
     i \in 1..Len(prev.input)}

\* a second run has ended in success, and the dataset it wrote to holds a
\* record with a vector whose id was not among its rows
C18_Witness ==
  /\ runs = 2 /\ ing.pc = "idle" /\ ing.result = "ok" /\ prev.ok
  /\ \E r, q \in committed.records :
       /\ r.dataset = datasetOf(prev.opts) /\ q.dataset = r.dataset
       /\ r.id \notin PrevIds /\ q.id \in PrevIds
       /\ EntriesOf(committed, r).vec # {}

\* the datasets of the model
AllDatasets == {datasetOf(o) : o \in RunOptions}

\* what the store S holds for the datasets other than N
OtherEntries(S, N) ==
  [records |-> {r \in S.records : r.dataset # N},
   vec     |-> {v \in S.vec : v.dataset # N},
   fts     |-> {f \in S.fts : f.dataset # N},
   rtree   |-> {g \in S.rtree :
                  \E r \in S.records : r.rowid = g.rowid /\ r.dataset # N}]

C19_Step ==
  \A N \in AllDatasets :
    (ing.pc # "idle" /\ ing.dataset = N) =>
      /\ OtherEntries(db', N) = OtherEntries(db, N)
      /\ OtherEntries(committed', N) = OtherEntries(committed, N)

\* C19: no step of a run into a dataset changes a record, a vector, a text
\* entry or a spatial entry of another dataset, in the store as the run sees
\* it and as committed, also when the other dataset holds a record with the
\* id of a row of the run.
C19_Isolated == [][C19_Step]_vars

\* a run into one dataset has committed a record whose id another dataset
\* holds with a vector
C19_Witness ==
  /\ runs = 2 /\ ing.pc = "idle" /\ ing.result = "ok"
  /\ \E r, q \in committed.records :
       /\ r.id = q.id /\ r.dataset # q.dataset
       /\ EntriesOf(committed, r).vec # {} /\ EntriesOf(committed, q).vec # {}

(***************************************************************************)
(* resolveColumns on its own: headers and column options with names in     *)
(* other case, with spaces around them, blank, and not in the header.      *)
(***************************************************************************)
ResolveHeaders == {Header, << <<" ", "i", "d">>, <<"T", " ">>, <<"A">>, <<"l", "A", "t">>, sLng >>}

ResolveColumns ==
  [ID       : {sId, <<"i", "d", " ">>, <<"x">>, <<" ">>},
   Text     : {<<>>, <<sT>>, << <<" ", "T">> >>, << <<"x">> >>},
   Metadata : {<<>>, << <<"*">> >>, << <<"A", " ">> >>, << <<"x">> >>},
   Lat      : {<<>>, <<"l", "A", "T">>, <<"x">>},
   Lng      : {<<>>, sLng, <<"x">>}]

ResolveArgs ==
  {[pc |-> "args", header |-> h, cols |-> c, ok |-> TRUE, idx |-> NoIndexes] :
     h \in ResolveHeaders, c \in ResolveColumns}

InitResolve ==
  /\ db = EmptyStore
  /\ committed = EmptyStore
  /\ conn = {}
  /\ ing = IdleRun
  /\ input = <<>>
  /\ obs = NoObs
  /\ runs = 0
  /\ prev = NoPrev
  /\ wrote = [live |-> {}, durable |-> {}]
  /\ srch = IdleSearch
  /\ seen = {}
  /\ mu = {}
  /\ encodeMu = {}
  /\ http = [r \in Requests |-> IdleHttp]
  /\ codec = IdleCodec
  /\ call \in ResolveArgs
  /\ entry = IdleEntry
  /\ srv = IdleSrv
  /\ svc = IdleSvc

\* resolveColumns(header, opts)
CallResolve ==
  /\ call.pc = "args"
  /\ call' = [call EXCEPT !.pc = "resolved",
                          !.ok = resolveColumns(call.header, call.cols).ok,
                          !.idx = resolveColumns(call.header, call.cols).idx]
  /\ UNCHANGED <<db, committed, conn, ing, input, obs, runs, prev, wrote, srch, seen,
                 mu, encodeMu, http, codec, entry, srv, svc>>

NextResolve == CallResolve

SpecResolve == InitResolve /\ [][NextResolve]_vars

\* the names the options give explicitly, blank ones left out
ExplicitNames(cols) ==
  {n \in {cols.ID, cols.Lat, cols.Lng}
        \cup {cols.Text[i] : i \in 1..Len(cols.Text)}
        \cup (IF cols.Metadata = << <<"*">> >> THEN {}
              ELSE {cols.Metadata[i] : i \in 1..Len(cols.Metadata)}) :
     TrimSpace(n) # <<>>}

\* the name matches a column of the header, both trimmed, case ignored
Matches(header, n) ==
  \E i \in 1..Len(header) :
    TrimSpace(header[i]) # <<>> /\ ToLower(TrimSpace(header[i])) = ToLower(TrimSpace(n))

\* C21: resolveColumns returns an error whenever a name the options give
\* explicitly, for the id, a text column, a metadata column, the latitude or
\* the longitude, is not blank and matches no column of the header (trimmed,
\* case ignored).
C21_UnmatchedNameFails ==
  (call.pc = "resolved" /\ \E n \in ExplicitNames(call.cols) : ~Matches(call.header, n))
    => ~call.ok

(***************************************************************************)
(* Rows that cannot be parsed.                                             *)
(***************************************************************************)
\* the cell of the column ci of the row, "" when the row is too short
CellOf(row, ci) == IF ci.Index + 1 \in 1..Len(row) THEN row[ci.Index + 1] ELSE <<>>

Blank(s) == \A i \in 1..Len(s) : s[i] = " "

\* the column is configured and its cell is neither blank nor a number
BadNumber(row, ci) ==
  /\ ci.Index >= 0
  /\ ~Blank(CellOf(row, ci))
  /\ ~IsNumeric(TrimSpace(CellOf(row, ci)))

BadRow(row, idx) ==
  \/ Blank(CellOf(row, idx.ID))
  \/ BadNumber(row, idx.Lat)
  \/ BadNumber(row, idx.Lng)

C22_Step ==
  /\ \A row \in Rows :
       ReadRow(row) =>
         /\ BadRow(row, ing.idx) =>
              /\ ing'.pc = "idle" /\ ing'.result = "error"
              /\ "ingest" \notin conn'
              /\ db' = committed /\ committed' = committed
              /\ mu' = mu
         /\ ~BadRow(row, ing.idx) =>
              /\ ing'.pc \in {"read", "encode", "upsert_records"}
              /\ ing'.pc # "read" =>
                   /\ (ing.idx.Lat.Index >= 0 /\ Blank(CellOf(row, ing.idx.Lat)))
                        => ing'.rec.Lat = Nil
                   /\ (ing.idx.Lng.Index >= 0 /\ Blank(CellOf(row, ing.idx.Lng)))
                        => ing'.rec.Lng = Nil
  /\ UpsertPrimary =>
       \E r \in db'.records :
         /\ r.dataset = ing.dataset /\ r.id = ing.rec.ID
         /\ r.lat = ing.rec.Lat /\ r.lng = ing.rec.Lng

\* C22: when the reader delivers a row whose id is blank after trimming, or
\* whose latitude or longitude cell (the column being configured) is neither
\* blank nor a number, the run ends there with an error: the row is not
\* encoded and not applied, the writes since the last commit are undone and
\* no later row is read.  A blank latitude or longitude cell is no error; the
\* record is stored with that coordinate absent.
C22_BadRowStops == [][C22_Step]_vars

\* a run was stopped after a commit, and a committed record has a latitude
\* but no longitude: its row had a blank longitude cell
C22_Witness ==
  /\ ing.pc = "idle" /\ ing.result = "error" /\ input = <<>>
  /\ \E r \in committed.records : r.lat # Nil /\ r.lng = Nil

(***************************************************************************)
(* decodeSearchRequest as a function of the request.                       *)
(***************************************************************************)
DecodeKeys == {"q", "query", "topk", "max_results", "summary_only"}

\* the parameters a request carries: "" stands for a parameter left out
DecodeChoices ==
  [q : {<<>>, <<"t">>}, query : {<<>>, <<"A">>}, topk : {<<>>, <<"1">>, <<"x">>},
   max_results : {<<>>, <<"1">>}, summary_only : {<<>>, <<"t">>}]

ParamsOf(c) == [k \in {k \in DecodeKeys : c[k] # <<>>} |-> c[k]]

DecodeFilter == {<<>>, << <<"A", "=", "t">> >>, << <<" ">>, <<"A", "=">> >>, << <<"x">> >>}

DecodeFilters == {{}, {[key |-> <<"A", " ">>, value |-> <<"t">>]}, {[key |-> <<" ">>, value |-> <<"t">>]}}

DecodeArgs ==
  {[pc |-> "args", req |-> Request(m, ParamsOf(c), f, fs, TRUE), ok |-> TRUE, out |-> NoRequest] :
     m \in {"GET", "POST"}, c \in DecodeChoices, f \in DecodeFilter, fs \in DecodeFilters}
  \cup {[pc |-> "args", req |-> Request("POST", ParamsOf(c), <<>>, {}, FALSE), ok |-> TRUE,
          out |-> NoRequest] : c \in DecodeChoices}

InitDecode ==
  /\ db = EmptyStore
  /\ committed = EmptyStore
  /\ conn = {}
  /\ ing = IdleRun
  /\ input = <<>>
  /\ obs = NoObs
  /\ runs = 0
  /\ prev = NoPrev
  /\ wrote = [live |-> {}, durable |-> {}]
  /\ srch = IdleSearch
  /\ seen = {}
  /\ mu = {}
  /\ encodeMu = {}
  /\ http = [r \in Requests |-> IdleHttp]
  /\ codec = IdleCodec
  /\ call \in DecodeArgs
  /\ entry = IdleEntry
  /\ srv = IdleSrv
  /\ svc = IdleSvc

\* s.decodeSearchRequest(r)
CallDecode ==
  /\ call.pc = "args"
  /\ \E entries \in ScanOrders(call.req.filters) :
       call' = [call EXCEPT !.pc = "decoded",
                            !.ok = decodeSearchRequest(call.req, entries).ok,
                            !.out = decodeSearchRequest(call.req, entries).req]
  /\ UNCHANGED <<db, committed, conn, ing, input, obs, runs, prev, wrote, srch, seen,
                 mu, encodeMu, http, codec, entry, srv, svc>>

NextDecode == CallDecode

SpecDecode == InitDecode /\ [][NextDecode]_vars

\* a request that decodeSearchRequest has no other reason to reject
WellFormed(req) ==
  /\ req.syntax
  /\ "topk" \notin DOMAIN req.params
  /\ parseFilterValues(req.filter).ok
  /\ \A e \in req.filters : TrimSpace(e.key) # <<>>

\* C26: a request that carries max_results = n, for GET and POST alike, is
\* decoded without error and with TopK = n, and one that carries summary_only
\* is decoded without error.
C26_MaxResultsAccepted ==
  (call.pc = "decoded" /\ WellFormed(call.req)) =>
    /\ "max_results" \in DOMAIN call.req.params =>
         call.ok /\ call.out.TopK = ParseNat(call.req.params["max_results"])
    /\ "summary_only" \in DOMAIN call.req.params => call.ok

\* the step in which the handler of request r answers
Answers(r) == http[r].pc # "h_done" /\ http'[r].pc = "h_done"

C23_Step ==
  \A r \in Requests :
    Answers(r) =>
      /\ (http'[r].status = StatusGatewayTimeout) <=>
           (http[r].pc = "h_unlock" /\ http[r].err = "deadline")
      /\ (http'[r].status = StatusInternalServerError) <=>
           (http[r].pc = "h_unlock" /\ http[r].err \notin {"none", "deadline"})
      /\ (http'[r].status = StatusOK) <=>
           (http[r].pc = "h_unlock" /\ http[r].err = "none")
      /\ (http'[r].status \in {StatusBadRequest, StatusMethodNotAllowed}) <=>
           (http[r].pc = "idle")

\* C23: a search whose retrieval fails because the deadline of the request
\* passed is answered with 504, every other failure of the retrieval with 500,
\* and 400 is the answer to a request rejected before the retrieval only.
C23_DeadlineIs504 == [][C23_Step]_vars

C23_Witness ==
  \E r, q \in Requests :
    /\ http[r].pc = "h_done" /\ http[r].status = StatusGatewayTimeout
    /\ http[q].pc = "h_done" /\ http[q].status = StatusInternalServerError

(***************************************************************************)
(* The entry points: the commands of main.go and the methods of Service.   *)
(* An entry point is the sequence of its steps that touch the database     *)
(* file, the encoder or the listener; entry.schema tells whether the       *)
(* schema has been applied to the file, entry.first what the first         *)
(* statement on the records tables found.                                  *)
(***************************************************************************)
Commands == {"init", "ingest", "search", "serve", "Ingest", "Search", "StartServer"}

\* Service.Ingest: ensureDatabase, ensureEncoder, ingest.Run
IngestSteps == <<"ensureDatabase", "encoder", "ingest">>

EntrySteps(cmd, csv, auto) ==
  CASE cmd = "init" -> <<"open", "schema">>
    [] cmd = "ingest" -> <<"open", "schema", "encoder", "ingest">>
    [] cmd = "search" -> <<"open", "encoder", "search">>
    [] cmd = "serve" -> <<"open", "schema", "encoder", "listen">>
    [] cmd = "Ingest" -> <<"open">> \o IngestSteps
    [] cmd = "Search" -> <<"open", "encoder", "search">>
    [] cmd = "StartServer" ->
         <<"open", "schema">> \o (IF auto /\ csv THEN IngestSteps ELSE <<>>)
           \o <<"encoder", "listen">>

\* cmd: the entry point; file: whether the database file exists, with its
\* schema, before; csv: the configured dataset names a CSV; auto: AutoIngest
EntryArgs ==
  {e \in
   {[pc |-> "run", cmd |-> cmd, csv |-> csv, auto |-> auto,
    steps |-> EntrySteps(cmd, csv, auto), schema |-> file, first |-> "none",
    ingested |-> FALSE, listening |-> FALSE] :
     cmd \in Commands, csv \in BOOLEAN, file \in BOOLEAN, auto \in BOOLEAN} :
     e.auto \/ e.cmd = "StartServer"}

InitEntry ==
  /\ db = EmptyStore
  /\ committed = EmptyStore
  /\ conn = {}
  /\ ing = IdleRun
  /\ input = <<>>
  /\ obs = NoObs
  /\ runs = 0
  /\ prev = NoPrev
  /\ wrote = [live |-> {}, durable |-> {}]
  /\ srch = IdleSearch
  /\ seen = {}
  /\ mu = {}
  /\ encodeMu = {}
  /\ http = [r \in Requests |-> IdleHttp]
  /\ codec = IdleCodec
  /\ call = IdleCall
  /\ entry \in EntryArgs
  /\ srv = IdleSrv
  /\ svc = IdleSvc

EntryAt(step) == entry.pc = "run" /\ entry.steps # <<>> /\ Head(entry.steps) = step

\* the entry point returns after its last step; a serving one stays
Advance(e) ==
  [e EXCEPT !.steps = Tail(@),
            !.pc = IF Tail(e.steps) = <<>> /\ ~e.listening THEN "done" ELSE @]

\* what a statement on the records tables finds
Statement(e) ==
  [e EXCEPT !.first = IF @ # "none" THEN @ ELSE IF e.schema THEN "ok" ELSE "no_table"]

Failed(e) == [e EXCEPT !.pc = "failed", !.steps = <<>>]

EntryFrame ==
  UNCHANGED <<db, committed, conn, ing, input, obs, runs, prev, wrote, srch, seen,
              mu, encodeMu, http, codec, call, srv, svc>>

\* database.Open: the file is created when it is not there, without tables
EntryOpen ==
  /\ EntryAt("open")
  /\ entry' = Advance(entry)
  /\ EntryFrame

\* database.Init: applySchema, CREATE TABLE IF NOT EXISTS
EntryInit ==
  /\ EntryAt("schema")
  /\ entry' = Advance([entry EXCEPT !.schema = TRUE])
  /\ EntryFrame

\* Service.ensureDatabase: the schema is there when it returns
ensureDatabase(e) == [e EXCEPT !.schema = TRUE]

EntryEnsureDatabase ==
  /\ EntryAt("ensureDatabase")
  /\ entry' = Advance(ensureDatabase(entry))
  /\ EntryFrame

\* enc.Init, ensureEncoder
EntryEncoder ==
  /\ EntryAt("encoder")
  /\ entry' = Advance(entry)
  /\ EntryFrame

\* ingest.Run to its end: its statements fail on a file without tables
EntryIngest ==
  /\ EntryAt("ingest")
  /\ entry' = IF entry.schema
                THEN Advance([Statement(entry) EXCEPT !.ingested = TRUE])
                ELSE Failed(Statement(entry))
  /\ EntryFrame

\* search.VectorSearch
EntrySearch ==
  /\ EntryAt("search")
  /\ entry' = IF entry.schema THEN Advance(Statement(entry)) ELSE Failed(Statement(entry))
  /\ EntryFrame

\* Server.Serve: the listener accepts
EntryListen ==
  /\ EntryAt("listen")
  /\ entry' = Advance([entry EXCEPT !.listening = TRUE])
  /\ EntryFrame

\* a request is served: handleSearch calls VectorSearch
EntryRequest ==
  /\ entry.pc = "run" /\ entry.listening /\ entry.first = "none"
  /\ entry' = Statement(entry)
  /\ EntryFrame

\* the step returns an error, and the entry point returns it
EntryFails ==
  /\ entry.pc = "run" /\ entry.steps # <<>>
  /\ entry' = Failed(entry)
  /\ EntryFrame

NextEntry ==
  \/ EntryOpen
  \/ EntryInit
  \/ EntryEnsureDatabase
  \/ EntryEncoder
  \/ EntryIngest
  \/ EntrySearch
  \/ EntryListen
  \/ EntryRequest
  \/ EntryFails

SpecEntry == InitEntry /\ [][NextEntry]_vars

\* C24: every entry point applies the schema before its first statement on the
\* store: no command and no Service method finds the tables missing.
C24_SchemaBeforeUse == entry.pc # "none" => entry.first # "no_table"

\* C25: a serve entry point with a dataset that names a CSV and AutoIngest not
\* false accepts requests only after the ingestion has run to completion.
C25_IngestBeforeServe ==
  (entry.pc # "none" /\ entry.cmd \in {"serve", "StartServer"} /\ entry.csv /\ entry.auto
     /\ entry.listening) => entry.ingested

(***************************************************************************)
(* Service.ensureEncoder under concurrent callers.  svc.encoder is the     *)
(* field s.encoder (0 is nil, n the n-th encoder that was initialized),    *)
(* svc.inits counts the calls of enc.Init that succeeded, and each caller  *)
(* has its position, its local enc and the instance returned to it.        *)
(***************************************************************************)
Callers == 1..MaxCallers

\* the methods of Service that call ensureEncoder
Methods == {"Search", "Ingest", "Encoder", "NewAPIServer"}

IdleCaller == [pc |-> "idle", method |-> "none", enc |-> 0, got |-> 0, err |-> FALSE]

\* a Service built without an encoder instance; complete: the encoder
\* configuration names library, model and tokenizer
SvcArgs ==
  {[pc |-> "built", complete |-> c, encoder |-> 0, inits |-> 0,
    caller |-> [k \in Callers |-> IdleCaller]] : c \in BOOLEAN}

InitSvc ==
  /\ db = EmptyStore
  /\ committed = EmptyStore
  /\ conn = {}
  /\ ing = IdleRun
  /\ input = <<>>
  /\ obs = NoObs
  /\ runs = 0
  /\ prev = NoPrev
  /\ wrote = [live |-> {}, durable |-> {}]
  /\ srch = IdleSearch
  /\ seen = {}
  /\ mu = {}
  /\ encodeMu = {}
  /\ http = [r \in Requests |-> IdleHttp]
  /\ codec = IdleCodec
  /\ call = IdleCall
  /\ entry = IdleEntry
  /\ srv = IdleSrv
  /\ svc \in SvcArgs

SvcFrame ==
  UNCHANGED <<db, committed, conn, ing, input, obs, runs, prev, wrote, srch, seen,
              mu, encodeMu, http, codec, call, entry, srv>>

\* a goroutine calls a method of the Service, which calls ensureEncoder
SvcCall(k, method) ==
  /\ svc.pc = "built" /\ svc.caller[k].pc = "idle"
  /\ svc' = [svc EXCEPT !.caller[k] = [IdleCaller EXCEPT !.pc = "check", !.method = method]]
  /\ SvcFrame

\* if s.encoder != nil { return s.encoder, nil }; the configuration is checked
SvcCheck(k) ==
  /\ svc.pc = "built" /\ svc.caller[k].pc = "check"
  /\ svc' = [svc EXCEPT !.caller[k] =
       IF svc.encoder # 0 THEN [@ EXCEPT !.pc = "done", !.got = svc.encoder]
       ELSE IF ~svc.complete THEN [@ EXCEPT !.pc = "done", !.err = TRUE]
       ELSE [@ EXCEPT !.pc = "init"]]
  /\ SvcFrame

\* enc := &emb.Encoder{}; enc.Init(encoderCfg)
SvcEncInit(k, ok) ==
  /\ svc.pc = "built" /\ svc.caller[k].pc = "init"
  /\ svc' = IF ok
              THEN [svc EXCEPT !.inits = @ + 1,
                               !.caller[k] = [@ EXCEPT !.pc = "store", !.enc = svc.inits + 1]]
              ELSE [svc EXCEPT !.caller[k] = [@ EXCEPT !.pc = "done", !.err = TRUE]]
  /\ SvcFrame

\* s.encoder = enc; return enc, nil
SvcStore(k) ==
  /\ svc.pc = "built" /\ svc.caller[k].pc = "store"
  /\ svc' = [svc EXCEPT !.encoder = svc.caller[k].enc,
                        !.caller[k] = [@ EXCEPT !.pc = "done", !.got = svc.caller[k].enc]]
  /\ SvcFrame

NextSvc ==
  \/ \E k \in Callers, method \in Methods : SvcCall(k, method)
  \/ \E k \in Callers : SvcCheck(k)
  \/ \E k \in Callers, ok \in BOOLEAN : SvcEncInit(k, ok)
  \/ \E k \in Callers : SvcStore(k)

SpecSvc == InitSvc /\ [][NextSvc]_vars

\* C30: on a Service built without an encoder, whatever the interleaving of
\* the callers, enc.Init succeeds at most once and all callers that are
\* returned an encoder are returned the same one.
C30_OneEncoder ==
  svc.pc = "built" =>
    /\ svc.inits <= 1
    /\ \A k, l \in Callers :
         (svc.caller[k].got # 0 /\ svc.caller[l].got # 0) =>
           svc.caller[k].got = svc.caller[l].got

(***************************************************************************)
(* Server.Serve: the goroutine that runs srv.ListenAndServe, the channel   *)
(* errCh and the select of Serve.  srv.active counts the requests being    *)
(* handled, srv.served those answered, srv.closing tells that srv.Shutdown *)
(* was called, srv.shut what it returned.                                  *)
(***************************************************************************)
ErrChCap == 1

\* Serve has been called with a context that is not yet cancelled
ServeArgs ==
  [pc |-> "select", ctx |-> "live", lis |-> "start", lisErr |-> "none", errCh |-> <<>>,
   closing |-> FALSE, shut |-> "none", active |-> 0, served |-> 0, ret |-> "none"]

InitShutdown ==
  /\ db = EmptyStore
  /\ committed = EmptyStore
  /\ conn = {}
  /\ ing = IdleRun
  /\ input = <<>>
  /\ obs = NoObs
  /\ runs = 0
  /\ prev = NoPrev
  /\ wrote = [live |-> {}, durable |-> {}]
  /\ srch = IdleSearch
  /\ seen = {}
  /\ mu = {}
  /\ encodeMu = {}
  /\ http = [r \in Requests |-> IdleHttp]
  /\ codec = IdleCodec
  /\ call = IdleCall
  /\ entry = IdleEntry
  /\ srv = ServeArgs
  /\ svc = IdleSvc

SrvFrame ==
  UNCHANGED <<db, committed, conn, ing, input, obs, runs, prev, wrote, srch, seen,
              mu, encodeMu, http, codec, call, entry, svc>>

\* variant: errCh without buffer, a send needs Serve at a receive
canSendUnbuffered(s) == s.pc \in {"select", "recv"} /\ s.errCh = <<>>

\* errCh <- err does not block while the buffer has room
canSend(s) == Len(s.errCh) < ErrChCap

\* err == nil || errors.Is(err, http.ErrServerClosed)
resultOf(err) == IF err = "closed" THEN "nil" ELSE err

\* the context passed to Serve is cancelled
SrvCancel ==
  /\ srv.pc # "none" /\ srv.ctx = "live"
  /\ srv' = [srv EXCEPT !.ctx = "cancelled"]
  /\ SrvFrame

\* the goroutine runs srv.ListenAndServe: ErrServerClosed after Shutdown,
\* else the listener is bound or the bind fails
LisListen(ok) ==
  /\ srv.pc # "none" /\ srv.lis = "start"
  /\ srv' = IF srv.closing THEN [srv EXCEPT !.lis = "send", !.lisErr = "closed"]
            ELSE IF ok THEN [srv EXCEPT !.lis = "listening"]
            ELSE [srv EXCEPT !.lis = "send", !.lisErr = "failure"]
  /\ SrvFrame

\* Accept fails: ListenAndServe returns the error
LisFail ==
  /\ srv.lis = "listening" /\ ~srv.closing
  /\ srv' = [srv EXCEPT !.lis = "send", !.lisErr = "failure"]
  /\ SrvFrame

\* the listener was closed by Shutdown: ListenAndServe returns ErrServerClosed
LisClosed ==
  /\ srv.lis = "listening" /\ srv.closing
  /\ srv' = [srv EXCEPT !.lis = "send", !.lisErr = "closed"]
  /\ SrvFrame

\* errCh <- err; return
LisSend ==
  /\ srv.lis = "send" /\ canSend(srv)
  /\ srv' = [srv EXCEPT !.lis = "done", !.errCh = Append(@, srv.lisErr)]
  /\ SrvFrame

\* a request is accepted, and its handler returns
ReqStart ==
  /\ srv.lis = "listening" /\ ~srv.closing /\ srv.active + srv.served < MaxRequests
  /\ srv' = [srv EXCEPT !.active = @ + 1]
  /\ SrvFrame

ReqEnd ==
  /\ srv.pc # "none" /\ srv.active > 0
  /\ srv' = [srv EXCEPT !.active = @ - 1, !.served = @ + 1]
  /\ SrvFrame

\* select, case <-ctx.Done(): srv.Shutdown is called
SelectDone ==
  /\ srv.pc = "select" /\ srv.ctx = "cancelled"
  /\ srv' = [srv EXCEPT !.pc = "shutdown", !.closing = TRUE]
  /\ SrvFrame

\* select, case err := <-errCh
SelectErr ==
  /\ srv.pc = "select" /\ srv.errCh # <<>>
  /\ srv' = [srv EXCEPT !.pc = "returned", !.errCh = Tail(@),
                        !.ret = resultOf(Head(srv.errCh))]
  /\ SrvFrame

\* srv.Shutdown returns nil once no request is being handled
ShutdownOk ==
  /\ srv.pc = "shutdown" /\ srv.active = 0
  /\ srv' = [srv EXCEPT !.pc = "recv", !.shut = "ok"]
  /\ SrvFrame

\* ShutdownTimeout passes first: Shutdown returns the deadline error and
\* Serve returns it
ShutdownTimeout ==
  /\ srv.pc = "shutdown"
  /\ srv' = [srv EXCEPT !.pc = "returned", !.shut = "deadline", !.ret = "deadline"]
  /\ SrvFrame

\* err := <-errCh after Shutdown
ServeRecv ==
  /\ srv.pc = "recv" /\ srv.errCh # <<>>
  /\ srv' = [srv EXCEPT !.pc = "returned", !.errCh = Tail(@),
                        !.ret = resultOf(Head(srv.errCh))]
  /\ SrvFrame

NextShutdown ==
  \/ SrvCancel
  \/ \E ok \in BOOLEAN : LisListen(ok)
  \/ LisFail
  \/ LisClosed
  \/ LisSend
  \/ ReqStart
  \/ ReqEnd
  \/ SelectDone
  \/ SelectErr
  \/ ShutdownOk
  \/ ShutdownTimeout
  \/ ServeRecv

SpecShutdown == InitShutdown /\ [][NextShutdown]_vars

\* the goroutine is scheduled, ListenAndServe returns once the listener is
\* closed, a send or receive that can proceed does, the select takes a case
\* that is ready, and Shutdown returns, at the latest when its timeout passes
FairShutdown ==
  /\ WF_vars(\E ok \in BOOLEAN : LisListen(ok))
  /\ WF_vars(LisClosed)
  /\ WF_vars(LisSend)
  /\ WF_vars(SelectDone \/ SelectErr)
  /\ WF_vars(ShutdownOk \/ ShutdownTimeout)
  /\ WF_vars(ServeRecv)

SpecShutdownFair == SpecShutdown /\ FairShutdown

\* C27: once the context of Serve is cancelled Serve returns; it returns nil
\* when Shutdown completed in time and the listener stopped with
\* ErrServerClosed; and the goroutine's send on errCh always completes.
C27_ShutdownTerminates ==
  /\ (srv.pc # "none" /\ srv.ctx = "cancelled") ~> (srv.pc = "returned")
  /\ (srv.pc # "none" /\ srv.lis = "send") ~> (srv.lis = "done")
  /\ [](srv.pc = "returned" /\ srv.shut = "ok" /\ srv.lisErr = "closed" => srv.ret = "nil")

C27_Witness ==
  /\ srv.pc = "returned" /\ srv.ctx = "cancelled" /\ srv.shut = "ok"
  /\ srv.lis = "done" /\ srv.lisErr = "closed" /\ srv.ret = "nil"

\* what the row rec of a run on dataset leaves in the store S: the record with
\* the metadata, coordinates and fingerprint of rec, an embedding and a lexical
\* entry when rec has text, a spatial entry when it has both coordinates
DerivedFrom(S, dataset, rec) ==
  \E r \in S.records :
    /\ r.dataset = dataset /\ r.id = rec.ID
    /\ r.data = rec.Metadata /\ r.lat = rec.Lat /\ r.lng = rec.Lng
    /\ r.hash = hashRecord(dataset, rec)
    /\ (\E v \in S.vec : v.dataset = dataset /\ v.id = rec.ID)
         <=> (TrimSpace(embeddingText(rec)) # <<>>)
    /\ (\E f \in S.fts : f.rowid = r.rowid) <=> (TrimSpace(embeddingText(rec)) # <<>>)
    /\ (\E g \in S.rtree : g.rowid = r.rowid) <=> (rec.Lat # Nil /\ rec.Lng # Nil)

\* the rows of the input that are the last with their id
LastRows(rows, idx) ==
  {i \in 1..Len(rows) :
     \A j \in (i + 1)..Len(rows) :
       buildRecord(rows[j], idx).rec.ID # buildRecord(rows[i], idx).rec.ID}

\* the step in which Run returns nil
RunSucceeds == ing.pc = "final" /\ ing'.pc = "idle" /\ ing'.result = "ok"

C28_Step ==
  RunSucceeds =>
    \A i \in LastRows(input, ing.idx) :
      DerivedFrom(committed', ing.dataset, buildRecord(input[i], ing.idx).rec)

\* C28: when a run ends in success, for every id of its input the committed
\* record, its fingerprint and the presence of its vector, lexical and spatial
\* entries are those of the last row of the input with that id.
C28_LastWins == [][C28_Step]_vars

\* no two rows read by the run, and no row and stored record, share an id and
\* a fingerprint while differing in content
NoCollision ==
  \A i \in 1..Len(input) :
    LET rec == buildRecord(input[i], ing.idx).rec
    IN /\ \A j \in 1..Len(input) :
            LET other == buildRecord(input[j], ing.idx).rec
            IN hashRecord(ing.dataset, rec) = hashRecord(ing.dataset, other) => rec = other
       /\ \A r \in obs.lastCommit.records \cup committed.records \cup db.records :
            (r.dataset = ing.dataset /\ r.id = rec.ID /\ r.hash = hashRecord(ing.dataset, rec))
              => (r.data = rec.Metadata /\ r.lat = rec.Lat /\ r.lng = rec.Lng)

C28_StepNoCollision == (RunSucceeds /\ NoCollision) => C28_Step

\* the last row wins in every run free of fingerprint collisions
C28_LastWinsNoCollision == [][C28_StepNoCollision]_vars

(***************************************************************************)
(* A run that fails and is repeated on the same input.                     *)
(***************************************************************************)
\* what Run does to the store S for one row: the skip test, the embedding
\* when there is text, the primary record and the derived entries
ApplyRow(S, dataset, idx, row) ==
  LET rec == buildRecord(row, idx).rec
      hash == hashRecord(dataset, rec)
      text == embeddingText(rec)
      embedding == IF TrimSpace(text) # <<>> THEN EncodeVec(text) ELSE <<>>
      records == UpsertRecords(S.records, dataset, rec.ID, rec.Metadata, rec.Lat, rec.Lng, hash)
      rowid == SelectRowid(records, dataset, rec.ID)
  IN IF shouldSkip(S.records, dataset, rec.ID, hash) THEN S
     ELSE [records |-> records,
           vec |-> vecAfter(S.vec, dataset, rec, embedding),
           fts |-> ftsAfter(S.fts, rowid, dataset, rec),
           rtree |-> rtreeAfter(S.rtree, rowid, rec)]

\* the store a run without failure leaves, from the store S, on the rows
RECURSIVE RunFrom(_, _, _)
RunFrom(S, opts, rows) ==
  IF rows = <<>> THEN S
  ELSE RunFrom(ApplyRow(S, datasetOf(opts), resolveColumns(Header, opts.Columns).idx,
                        Head(rows)),
               opts, Tail(rows))

\* the runs that are repeated name their columns and write to the default
\* dataset, with every batch size
RetryOptions == {o \in RunOptions : o.Columns = ColsFull /\ o.Dataset = <<>>}

\* the stores they start from: what earlier runs have left
RetryStores ==
  {RunFrom(EmptyStore, o, rows) : o \in RetryOptions, rows \in {<<>>, <<RowNoText>>, <<RowGeo>>}}

InitRetry ==
  /\ db \in RetryStores
  /\ committed = db
  /\ conn = {}
  /\ ing = IdleRun
  /\ input = <<>>
  /\ obs = NoObs
  /\ runs = 0
  /\ prev = NoPrev
  /\ wrote = [live |-> {}, durable |-> {}]
  /\ srch = IdleSearch
  /\ seen = {}
  /\ mu = {}
  /\ encodeMu = {}
  /\ http = [r \in Requests |-> IdleHttp]
  /\ codec = IdleCodec
  /\ call = IdleCall
  /\ entry = IdleEntry
  /\ srv = IdleSrv
  /\ svc = IdleSvc

\* Run is called; prev keeps its options and the store it starts from
StartTracked(opts) ==
  /\ ing.pc = "idle" /\ ing.track = "none"
  /\ runs < MaxRuns
  /\ runs' = runs + 1
  /\ input' = <<>>
  /\ obs' = [NoObs EXCEPT !.lastCommit = committed]
  /\ prev' = [ok |-> FALSE, opts |-> opts, input |-> <<>>, state |-> committed]
  /\ ing' = [IdleRun EXCEPT !.pc = "begin", !.opts = opts,
                            !.dataset = datasetOf(opts),
                            !.idx = resolveColumns(Header, opts.Columns).idx,
                            !.batchSize = batchSizeOf(opts),
                            !.track = "first"]
  /\ UNCHANGED <<db, committed, conn, wrote, srch, seen>>
  /\ UNCHANGED <<mu, encodeMu, http, codec, call, entry, srv, svc>>

\* Run is called again after it failed, with the same options, on the same file
StartRetry ==
  /\ ing.pc = "idle" /\ ing.track # "none" /\ ing.result \in {"error", "cancelled"}
  /\ runs < MaxRuns
  /\ runs' = runs + 1
  /\ input' = <<>>
  /\ obs' = [NoObs EXCEPT !.lastCommit = committed]
  /\ ing' = [IdleRun EXCEPT !.pc = "begin", !.opts = prev.opts,
                            !.dataset = datasetOf(prev.opts),
                            !.idx = resolveColumns(Header, prev.opts.Columns).idx,
                            !.batchSize = batchSizeOf(prev.opts),
                            !.track = IF committed # prev.state THEN "resume" ELSE "retry"]
  /\ UNCHANGED <<db, committed, conn, prev, wrote, srch, seen>>
  /\ UNCHANGED <<mu, encodeMu, http, codec, call, entry, srv, svc>>

NextRetry ==
  \/ \E opts \in RetryOptions : StartTracked(opts)
  \/ StartRetry
  \/ BeginTx
  \/ \E row \in Rows : ReadRow(row)
  \/ ReadEOF
  \/ EncodeLock
  \/ EncodeOk
  \/ UpsertPrimary
  \/ UpsertDerived
  \/ CommitBatch
  \/ CommitFinal
  \/ RunFails
  \/ Cancel

SpecRetry == InitRetry /\ [][NextRetry]_vars

C29_Step ==
  (RunSucceeds /\ ing.track # "none") =>
    committed' = RunFrom(prev.state, ing.opts, input)

\* C29: when a run has failed or was cancelled, at whatever row, and the same
\* input is then ingested to success, the four committed relations are those
\* a single run without failure leaves from the store the failed run started from.
C29_RetryConverges == [][C29_Step]_vars

\* the repetition of a run that failed after it had committed rows has ended
\* in success on an input of two rows
C29_Witness ==
  /\ ing.pc = "idle" /\ ing.track = "resume" /\ ing.result = "ok"
  /\ prev.ok /\ Len(prev.input) = 2 /\ committed = prev.state

====
